---------------------------- MODULE Spec2Model ----------------------------
(***************************************************************************)
(* A model of the crawl pipeline of the contact-enrichment crawler:        *)
(* crawlSite / crawlUrl (lib/crawler.mjs), the Safe-URL gate               *)
(* (lib/validators/url.mjs), the robots policy cache (lib/robots.mjs), the *)
(* response cache (lib/cache.mjs), the two-level rate limiter              *)
(* (lib/rateLimiter.mjs), the fetcher (lib/fetcher.mjs), the DNC / TOS     *)
(* filter (lib/doNotContact.mjs), the captcha detector (lib/captcha.mjs)   *)
(* and the email classifier and scorer (lib/validators/email.mjs).         *)
(*                                                                         *)
(* Strings whose characters matter (host names, IP addresses, email        *)
(* addresses, the text of a page) are sequences of one-character strings,  *)
(* so that endsWith, includes, split, toLowerCase and the regular          *)
(* expressions on them are computed.                                       *)
(*                                                                         *)
(* An action is one run of the code between two awaits of a task.          *)
(*                                                                         *)
(* Spec      one site crawl, with everything the network may answer        *)
(* SpecCache one site crawled again and again, with the response cache     *)
(* SpecConc  NTasks concurrent site crawls                                 *)
(* SpecTime  NTasks concurrent crawls of one host, with the clock          *)
(* SpecMerge one site crawl whose pages all answer, with contacts to merge *)
(* SpecUnit  the pure functions, each called on an input of a bounded set  *)
(* SpecStore one site crawled again and again, with a failing cache        *)
(* SpecJob   one run of the worker's job handler (worker.mjs) on its sites *)
(* SpecSlots concurrent site crawls that wait for a slot of globalLimiter  *)
(* SpecDelay concurrent crawls of one host whose robots.txt has a          *)
(*           Crawl-delay, with the clock                                   *)
(* SpecPages one site crawl for each value of config.maxPages              *)
(* SpecRetry one site crawl whose GETs may fail, with the clock            *)
(* SpecDnc   one site crawl while DNC_LIST is changed                      *)
(* SpecExtract one site crawl of pages given as documents                  *)
(* SpecMetrics one site crawl that records fetchHtml's metric increments   *)
(* SpecRoutes one site crawl that records the addresses its GETs go to     *)
(* SpecLive  concurrent site crawls under weak fairness of every task      *)
(***************************************************************************)
EXTENDS Integers, Sequences, FiniteSets, TLC

(***************************************************************************)
(* Bounds of the model.                                                    *)
(***************************************************************************)
\* config.maxPages ranges over 1..MaxPagesCfg in Spec
MaxPagesCfg == 2
\* config.maxPages ranges over 1..CachePages in SpecCache
CachePages == 1
\* number of concurrent site crawls in SpecConc and SpecTime
NTasks == 2
\* in SpecTime: the time a DNS query or an HTTP request takes, and the
\* jitter fetchHtml draws (Math.random() * 1000), in milliseconds
LatencyMs == 10
JitterMs == 20
\* config.maxPages ranges over 1..ExtractPages in SpecExtract
ExtractPages == 3
\* config.maxPages ranges over 1..MetricsPages in SpecMetrics
MetricsPages == 1
\* config.maxPages ranges over 1..RoutesPages in SpecRoutes
RoutesPages == 1
\* number of concurrent site crawls in SpecLive
LiveTasks == 2
\* maxConcurrent of globalLimiter in SpecLive
LiveLimit == 1
\* config.maxPages ranges over 1..DncPages in SpecDnc
DncPages == 2
\* config.maxPages ranges over 1..RetryPages in SpecRetry
RetryPages == 3
\* in SpecPages: a value of config.maxPages above the number of candidate paths
PagesOver == 8
\* in SpecDelay: the Crawl-delay of the robots.txt, in seconds, and
\* config.maxPages ranges over 1..DelayPages
DelaySeconds == 2
DelayPages == 2
\* in SpecSlots: the number of concurrent site crawls, and the value of the
\* environment variable GLOBAL_CONCURRENCY
SlotTasks == 2
SlotLimit == 1
\* config.maxPages ranges over 1..StorePages in SpecStore
StorePages == 1
\* the job handler is given at most MaxSites sites in SpecJob
MaxSites == 3
\* config.maxPages ranges over 1..MergePages in SpecMerge
MergePages == 3

(***************************************************************************)
(* Program constants.                                                      *)
(***************************************************************************)
DEFAULT_MAX_PAGES == 5
MAX_RETRIES == 3
GLOBAL_CONCURRENCY == 8
PER_HOST_MAX_CONCURRENT == 1
LIMITER_MAX_RETRY_COUNT == 2
\* times are in milliseconds
PER_HOST_MIN_TIME == 1000
GLOBAL_MIN_TIME == 50
RESERVOIR == 10
RESERVOIR_REFRESH_INTERVAL == 60000
LIMITER_RETRY_DELAY == 2000
BETWEEN_REQUESTS_MS == 150
BACKOFF_BASE == 1000
BACKOFF_MAX == 8000

Null == "null"

(***************************************************************************)
(* Strings as sequences of characters.                                     *)
(***************************************************************************)
UpperLetters == <<"A", "B", "C", "D", "E", "F", "G", "H", "I", "J", "K", "L", "M", "N", "O", "P", "Q", "R", "S", "T", "U", "V", "W", "X", "Y", "Z">>
LowerLetters == <<"a", "b", "c", "d", "e", "f", "g", "h", "i", "j", "k", "l", "m", "n", "o", "p", "q", "r", "s", "t", "u", "v", "w", "x", "y", "z">>

\* the lower-case letter of each upper-case letter
LowerOf ==
  [ c \in { UpperLetters[i] : i \in 1..Len(UpperLetters) } |->
      LowerLetters[CHOOSE i \in 1..Len(UpperLetters) : UpperLetters[i] = c] ]

Lower(c) == IF c \in DOMAIN LowerOf THEN LowerOf[c] ELSE c

toLowerCase(s) == [i \in 1..Len(s) |-> Lower(s[i])]

startsWith(s, t) ==
  /\ Len(t) <= Len(s)
  /\ SubSeq(s, 1, Len(t)) = t

endsWith(s, t) ==
  /\ Len(t) <= Len(s)
  /\ SubSeq(s, Len(s) - Len(t) + 1, Len(s)) = t

includes(s, t) ==
  \E i \in 1..(Len(s) - Len(t) + 1) : SubSeq(s, i, i + Len(t) - 1) = t

Digits == {"0", "1", "2", "3", "4", "5", "6", "7", "8", "9"}

Letters == { LowerLetters[i] : i \in 1..Len(LowerLetters) }

\* s.split(sep), for a one-character separator
RECURSIVE split(_, _)
split(s, sep) ==
  IF \A i \in 1..Len(s) : s[i] # sep THEN << s >>
  ELSE LET i == CHOOSE k \in 1..Len(s) : s[k] = sep /\ \A j \in 1..(k - 1) : s[j] # sep
       IN  << SubSeq(s, 1, i - 1) >> \o split(SubSeq(s, i + 1, Len(s)), sep)

\* s.trim(), for blanks
RECURSIVE trim(_)
trim(s) ==
  IF s # << >> /\ s[1] = " " THEN trim(Tail(s))
  ELSE IF s # << >> /\ s[Len(s)] = " " THEN trim(SubSeq(s, 1, Len(s) - 1))
  ELSE s

Min(a, b) == IF a < b THEN a ELSE b
Max(a, b) == IF a > b THEN a ELSE b

(***************************************************************************)
(* lib/doNotContact.mjs                                                    *)
(***************************************************************************)
regeringen_se == <<"r", "e", "g", "e", "r", "i", "n", "g", "e", "n", ".", "s", "e">>
riksdagen_se == <<"r", "i", "k", "s", "d", "a", "g", "e", "n", ".", "s", "e">>
polisen_se == <<"p", "o", "l", "i", "s", "e", "n", ".", "s", "e">>
skatteverket_se == <<"s", "k", "a", "t", "t", "e", "v", "e", "r", "k", "e", "t", ".", "s", "e">>
kronofogden_se == <<"k", "r", "o", "n", "o", "f", "o", "g", "d", "e", "n", ".", "s", "e">>
facebook_com == <<"f", "a", "c", "e", "b", "o", "o", "k", ".", "c", "o", "m">>
instagram_com == <<"i", "n", "s", "t", "a", "g", "r", "a", "m", ".", "c", "o", "m">>
linkedin_com == <<"l", "i", "n", "k", "e", "d", "i", "n", ".", "c", "o", "m">>
twitter_com == <<"t", "w", "i", "t", "t", "e", "r", ".", "c", "o", "m">>
x_com == <<"x", ".", "c", "o", "m">>

\* The initial contents of DNC_LIST.
DNC_LIST_INIT ==
  { regeringen_se, riksdagen_se, polisen_se, skatteverket_se, kronofogden_se,
    facebook_com, instagram_com, linkedin_com, twitter_com, x_com }

\* Object.entries(RESTRICTIVE_TOS), in insertion order.
RESTRICTIVE_TOS ==
  << [domain |-> linkedin_com,  reason |-> "TOS forbjuder scraping (8.2)"],
     [domain |-> facebook_com,  reason |-> "TOS forbjuder automatiserad datainsamling"],
     [domain |-> instagram_com, reason |-> "Owned by Meta, strikt scraping-forbud"],
     [domain |-> twitter_com,   reason |-> "TOS forbjuder crawling utan tillstand"],
     [domain |-> x_com,         reason |-> "TOS forbjuder crawling utan tillstand"] >>

DncReason == "Domain on Do-Not-Contact list"

\* isDncDomain(host) against the list dncList
isDncDomainMutantNoLower(dncList, host) ==
  \/ host \in dncList
  \/ \E dnc \in dncList : endsWith(host, <<".">> \o dnc) \/ host = dnc

isDncDomain(dncList, host) ==
  LET normalized == toLowerCase(host) IN
  \/ normalized \in dncList
  \/ \E dnc \in dncList : endsWith(normalized, <<".">> \o dnc) \/ normalized = dnc

\* checkTos(host): the first entry of RESTRICTIVE_TOS the host includes
checkTosMutantExact(host) ==
  LET normalized == toLowerCase(host)
      hits == { i \in 1..Len(RESTRICTIVE_TOS) : normalized = RESTRICTIVE_TOS[i].domain }
  IN  IF hits = {}
        THEN [restricted |-> FALSE, reason |-> Null]
        ELSE LET first == CHOOSE i \in hits : \A j \in hits : i <= j
             IN  [restricted |-> TRUE, reason |-> RESTRICTIVE_TOS[first].reason]

checkTos(host) ==
  LET normalized == toLowerCase(host)
      hits == { i \in 1..Len(RESTRICTIVE_TOS) :
                  includes(normalized, RESTRICTIVE_TOS[i].domain) }
  IN  IF hits = {}
        THEN [restricted |-> FALSE, reason |-> Null]
        ELSE LET first == CHOOSE i \in hits : \A j \in hits : i <= j
             IN  [restricted |-> TRUE, reason |-> RESTRICTIVE_TOS[first].reason]

(***************************************************************************)
(* lib/validators/url.mjs                                                  *)
(***************************************************************************)
\* /^172\.(1[6-9]|2[0-9]|3[0-1])\./
Matches172(s) ==
  /\ startsWith(s, <<"1", "7", "2", ".">>)
  /\ Len(s) >= 7
  /\ \/ s[5] = "1" /\ s[6] \in {"6", "7", "8", "9"}
     \/ s[5] = "2" /\ s[6] \in Digits
     \/ s[5] = "3" /\ s[6] \in {"0", "1"}
  /\ s[7] = "."

\* BLOCKED_IP_PATTERNS.some(pattern => pattern.test(s))
BLOCKED_IP_PATTERNS(s) ==
  \/ startsWith(s, <<"1", "2", "7", ".">>)
  \/ startsWith(s, <<"1", "0", ".">>)
  \/ Matches172(s)
  \/ startsWith(s, <<"1", "9", "2", ".", "1", "6", "8", ".">>)
  \/ startsWith(s, <<"1", "6", "9", ".", "2", "5", "4", ".">>)
  \/ s = <<":", ":", "1">>
  \/ startsWith(s, <<"f", "e", "8", "0", ":">>)
  \/ startsWith(s, <<"f", "c", "0", "0", ":">>)
  \/ startsWith(s, <<"0", ".">>)

\* net.isIP on a URL's hostname: dotted-decimal IPv4 (four groups of digits)
isIP(s) ==
  /\ Len(s) >= 7
  /\ \A i \in 1..Len(s) : s[i] \in Digits \cup {"."}
  /\ Cardinality({i \in 1..Len(s) : s[i] = "."}) = 3
  /\ s[1] # "." /\ s[Len(s)] # "."
  /\ \A i \in 1..(Len(s) - 1) : ~(s[i] = "." /\ s[i + 1] = ".")

\* A URL is [scheme, host, path]; new URL(url) lower-cases the host.
hostname(url) == toLowerCase(url.host)
origin(url) == [scheme |-> url.scheme, host |-> hostname(url)]
pathname(url) == IF url.path = "" THEN "/" ELSE url.path

\* isSafeUrl up to its await of dns.resolve4: "unsafe", or "resolve"
isSafeUrlSync(url) ==
  IF url.scheme \notin {"http:", "https:"} THEN "unsafe"
  ELSE IF isIP(hostname(url)) /\ BLOCKED_IP_PATTERNS(hostname(url)) THEN "unsafe"
  ELSE "resolve"

\* isSafeUrl after dns.resolve4 answered. answer.ok is FALSE when the
\* resolution threw (the URL is then let through), else answer.addresses
\* are the A records.
isSafeUrlResolved(answer) ==
  IF ~answer.ok THEN TRUE
  ELSE ~(\E i \in 1..Len(answer.addresses) : BLOCKED_IP_PATTERNS(answer.addresses[i]))

(***************************************************************************)
(* The inputs of the model: sites, configurations, and what the network    *)
(* may answer.                                                             *)
(***************************************************************************)
Site(scheme, host) == [scheme |-> scheme, host |-> host]

SiteXCom == Site("https:", x_com)
SiteSubXCom == Site("https:", <<"a", ".", "X", ".", "c", "o", "m">>)
SiteAxCom == Site("https:", <<"a", "x", ".", "c", "o", "m">>)
SiteBSe == Site("https:", <<"b", ".", "s", "e">>)
SiteLoopback == Site("http:", <<"1", "2", "7", ".", "0", ".", "0", ".", "1">>)
SiteFtp == Site("ftp:", <<"b", ".", "s", "e">>)

Sites == {SiteXCom, SiteSubXCom, SiteAxCom, SiteBSe, SiteLoopback, SiteFtp}

PublicIp == <<"8", ".", "8", ".", "8", ".", "8">>
PrivateIp == <<"1", "0", ".", "0", ".", "0", ".", "5">>

\* what dns.resolve4 may answer
DnsAnswers ==
  { [ok |-> TRUE, addresses |-> <<PublicIp>>],
    [ok |-> TRUE, addresses |-> <<PrivateIp>>],
    [ok |-> TRUE, addresses |-> <<PublicIp, PrivateIp>>],
    [ok |-> FALSE, addresses |-> <<>>] }

\* the candidate paths of crawlSite, in order
PAGE_PATHS == <<"", "/kontakt", "/kontakta-oss", "/om", "/om-oss", "/about", "/contact">>

Url(site, i) == [scheme |-> site.scheme, host |-> site.host, path |-> PAGE_PATHS[i]]


\* the origin's robots.txt as parsed by robots-parser: the paths it
\* disallows for the bot and its Crawl-delay in seconds
AllPaths == {"/", "/kontakt", "/kontakta-oss", "/om", "/om-oss", "/about", "/contact"}
Permissive == [disallow |-> {}, crawlDelay |-> 0]

\* what the request for robots.txt may end in: a 2xx answer with a text,
\* another status, or an exception (network error, the 5 s abort)
RobotsReplies ==
  { [kind |-> "ok", policy |-> Permissive],
    [kind |-> "ok", policy |-> [disallow |-> AllPaths, crawlDelay |-> 0]],
    [kind |-> "ok", policy |-> [disallow |-> {"/kontakt"}, crawlDelay |-> 1]],
    [kind |-> "status", policy |-> Permissive],
    [kind |-> "throw", policy |-> Permissive] }

NoSocials == [linkedin |-> Null, facebook |-> Null, x |-> Null]

\* HTML bodies, as what the detectors and extractors find in them
HtmlInfo ==
  [ text |-> <<"K", "o", "n", "t", "a", "k", "t">>,
    emails |-> << [email |-> <<"i", "n", "f", "o", "@", "b", ".", "s", "e">>, source |-> "mailto", confidence |-> 85] >>,
    phones |-> << "+4684002227" >>,
    socials |-> NoSocials ]
HtmlKontakt ==
  [ text |-> <<"O", "m", " ", "o", "s", "s">>,
    emails |-> << [email |-> <<"k", "o", "n", "t", "a", "k", "t", "@", "b", ".", "s", "e">>,
                   source |-> "json-ld", confidence |-> 95],
                  [email |-> <<"K", "o", "n", "t", "a", "k", "t", "@", "b", ".", "s", "e", " ">>,
                   source |-> "inline", confidence |-> 50],
                  [email |-> <<"a", "@", "b", ".", "x", "y", "z">>, source |-> "inline", confidence |-> 50] >>,
    phones |-> << >>,
    socials |-> [linkedin |-> "https://linkedin.com/company/x", facebook |-> Null, x |-> Null] ]
HtmlChallenge ==
  [ text |-> <<"C", "l", "o", "u", "d", "f", "l", "a", "r", "e">>, emails |-> << >>, phones |-> << >>, socials |-> NoSocials ]

Bodies == {HtmlInfo, HtmlKontakt, HtmlChallenge}

\* the bodies of the pages of example.se
LinkedinCompany == "https://linkedin.com/company/example"
LinkedinOther == "https://linkedin.com/in/anna"
FacebookPage == "https://facebook.com/example"

\* <a href="mailto:info@example.se"> and <a href="tel:+4684002227">
HtmlMailto ==
  [ text |-> <<"K", "o", "n", "t", "a", "k", "t">>,
    emails |-> << [email |-> <<"i", "n", "f", "o", "@", "e", "x", "a", "m", "p", "l", "e", ".", "s", "e">>,
                   source |-> "mailto", confidence |-> 85] >>,
    phones |-> << "+4684002227" >>,
    socials |-> NoSocials ]
HtmlOm ==
  [ text |-> <<"O", "m", " ", "o", "s", "s">>,
    emails |-> << [email |-> <<"i", "n", "f", "o", "@", "e", "x", "a", "m", "p", "l", "e", ".", "s", "e">>,
                   source |-> "inline", confidence |-> 50],
                  [email |-> <<" ", "I", "n", "f", "o", "@", "E", "x", "a", "m", "p", "l", "e", ".", "s", "e">>,
                   source |-> "footer", confidence |-> 60],
                  [email |-> <<"a", "n", "n", "a", "@", "g", "m", "a", "i", "l", ".", "c", "o", "m">>,
                   source |-> "inline", confidence |-> 50] >>,
    phones |-> << "+4684002227", "+46701234567" >>,
    socials |-> [linkedin |-> LinkedinCompany, facebook |-> Null, x |-> Null] ]
HtmlAbout ==
  [ text |-> <<"A", "b", "o", "u", "t">>,
    emails |-> << [email |-> <<"a", "@", "e", "x", "a", "m", "p", "l", "e", ".", "s", "e">>, source |-> "json-ld", confidence |-> 95] >>,
    phones |-> << >>,
    socials |-> [linkedin |-> LinkedinOther, facebook |-> FacebookPage, x |-> Null] ]
HtmlBare ==
  [ text |-> <<"H", "e", "m">>, emails |-> << >>, phones |-> << >>, socials |-> NoSocials ]

\* addresses cleanEmails drops
HtmlNoise ==
  [ text |-> <<"N", "y", "h", "e", "t", "e", "r">>,
    emails |-> << [email |-> <<"n", "o", "r", "e", "p", "l", "y", "@", "e", "x", "a", "m", "p", "l", "e", ".", "s", "e">>,
                   source |-> "mailto", confidence |-> 85],
                  [email |-> <<"a", "n", "n", "a", "@", "e", "x", "a", "m", "p", "l", "e">>,
                   source |-> "inline", confidence |-> 50],
                  [email |-> <<"a", "n", "n", "a", "@", "e", "x", "a", "m", "p", "l", "e", ".", "x", "y", "z">>,
                   source |-> "inline", confidence |-> 50] >>,
    phones |-> << >>,
    socials |-> NoSocials ]

MergeBodies == {HtmlMailto, HtmlOm, HtmlAbout, HtmlBare, HtmlNoise}

(***************************************************************************)
(* lib/extractors: a document is the JSON-LD items of its scripts (ld),    *)
(* its anchors with a mailto: href (anchors, each in the footer or not)    *)
(* and the matches of the email pattern in the text of its body (matches). *)
(* An absent email is the empty string.                                    *)
(***************************************************************************)
validTypes == {"Organization", "LocalBusiness", "Corporation", "Store", "ProfessionalService"}

\* extractJsonLd(doc).emails, from item i on: the email of an item of a
\* valid type, then the emails of its contact points
RECURSIVE contactPoints(_, _)
contactPoints(points, k) ==
  IF k > Len(points) THEN << >>
  ELSE (IF points[k].email # << >>
          THEN << [email |-> points[k].email, source |-> "json-ld-contactpoint",
                   confidence |-> 95] >>
          ELSE << >>)
       \o contactPoints(points, k + 1)

RECURSIVE extractJsonLd(_, _)
extractJsonLd(ld, i) ==
  IF i > Len(ld) THEN << >>
  ELSE (IF ld[i].type \in validTypes
          THEN (IF ld[i].email # << >>
                  THEN << [email |-> ld[i].email, source |-> "json-ld", confidence |-> 95] >>
                  ELSE << >>)
               \o contactPoints(ld[i].contactPoint, 1)
          ELSE << >>)
       \o extractJsonLd(ld, i + 1)

\* the elements of seq that satisfy keep, in order
RECURSIVE anchorsWhere(_, _, _)
anchorsWhere(anchors, footerOnly, i) ==
  IF i > Len(anchors) THEN << >>
  ELSE (IF footerOnly => anchors[i].footer THEN << anchors[i] >> ELSE << >>)
       \o anchorsWhere(anchors, footerOnly, i + 1)

\* extractContacts(doc).emails: JSON-LD, mailto anchors, inline matches,
\* mailto anchors of the footer, in this order
extractContacts(doc, isContactPage) ==
  LET mailtos == anchorsWhere(doc.anchors, FALSE, 1)
      footer == anchorsWhere(doc.anchors, TRUE, 1)
  IN  extractJsonLd(doc.ld, 1)
      \o [i \in 1..Len(mailtos) |->
            [email |-> mailtos[i].email, source |-> "mailto", confidence |-> 85]]
      \o [i \in 1..Len(doc.matches) |->
            [email |-> doc.matches[i], source |-> "inline",
             confidence |-> IF isContactPage THEN 70 ELSE 50]]
      \o [i \in 1..Len(footer) |->
            [email |-> footer[i].email, source |-> "footer", confidence |-> 60]]

sales_example_se == <<"s", "@", "e", "x", "a", "m", "p", "l", "e", ".", "s", "e">>
anna_example_se == <<"a", "@", "e", "x", "a", "m", "p", "l", "e", ".", "s", "e">>

\* an Organization without email whose contactPoint has one
DocContactPoint ==
  [ ld |-> << [type |-> "Organization", email |-> << >>,
               contactPoint |-> << [email |-> sales_example_se] >>] >>,
    anchors |-> << >>,
    matches |-> << >> ]
\* a mailto anchor in the footer, whose text is the address; a Person
DocFooter ==
  [ ld |-> << [type |-> "Person", email |-> anna_example_se, contactPoint |-> << >>] >>,
    anchors |-> << [email |-> sales_example_se, footer |-> TRUE] >>,
    matches |-> << sales_example_se >> ]
\* an Organization with an email and the same address inline, an anchor
\* outside the footer
DocOrganization ==
  [ ld |-> << [type |-> "Organization", email |-> anna_example_se,
               contactPoint |-> << [email |-> anna_example_se] >>] >>,
    anchors |-> << [email |-> <<"i", "n", "f", "o", "@", "e", "x", "a", "m", "p", "l", "e", ".", "s", "e">>,
                    footer |-> FALSE] >>,
    matches |-> << anna_example_se >> ]
\* addresses in the text only
DocInline ==
  [ ld |-> << >>, anchors |-> << >>, matches |-> << sales_example_se, anna_example_se >> ]

Docs == {DocContactPoint, DocFooter, DocOrganization, DocInline}

\* the body of a page whose document is doc (the path of the page matches
\* KEY_PAGES or not: only the confidence of the inline entries differs)
ExtractBodies ==
  { [ text |-> <<"H", "e", "m">>, emails |-> extractContacts(doc, isContactPage),
      phones |-> << >>, socials |-> NoSocials ] : doc \in Docs, isContactPage \in BOOLEAN }

\* what a GET of a page may end in (confidence is in hundredths)
Responses ==
  [kind : {"http"}, status : {200}, html : {TRUE}, body : Bodies]
    \cup [kind : {"http"}, status : {200}, html : {FALSE}, body : {HtmlInfo}]
    \cup [kind : {"http"}, status : {403, 404, 500}, html : {TRUE}, body : {HtmlInfo}]
    \cup [kind : {"AbortError", "TypeError"}, status : {0}, html : {FALSE}, body : {HtmlInfo}]

(***************************************************************************)
(* lib/captcha.mjs                                                         *)
(***************************************************************************)
\* pattern.test(html) of a case-insensitive literal pattern
test(pattern, html) == LET text == toLowerCase(html.text) IN includes(text, pattern)

\* the indicators of hasCaptcha, in order
CAPTCHA_INDICATORS ==
  << <<"r", "e", "c", "a", "p", "t", "c", "h", "a">>,
     <<"h", "c", "a", "p", "t", "c", "h", "a">>,
     <<"c", "l", "o", "u", "d", "f", "l", "a", "r", "e">>,
     <<"c", "f", "-", "b", "r", "o", "w", "s", "e", "r", "-", "v", "e", "r", "i", "f", "i", "c", "a", "t", "i", "o", "n">>,
     <<"j", "u", "s", "t", " ", "a", " ", "m", "o", "m", "e", "n", "t">>,
     <<"a", "t", "t", "e", "n", "t", "i", "o", "n", " ", "r", "e", "q", "u", "i", "r", "e", "d">>,
     <<"c", "h", "a", "l", "l", "e", "n", "g", "e", "-", "p", "l", "a", "t", "f", "o", "r", "m">>,
     <<"g", "-", "r", "e", "c", "a", "p", "t", "c", "h", "a">>,
     <<"g", "r", "e", "c", "a", "p", "t", "c", "h", "a">> >>

hasCaptcha(html) ==
  \E i \in 1..Len(CAPTCHA_INDICATORS) : test(CAPTCHA_INDICATORS[i], html)

getCaptchaType(html) ==
  IF test(<<"g", "-", "r", "e", "c", "a", "p", "t", "c", "h", "a">>, html) \/ test(<<"g", "r", "e", "c", "a", "p", "t", "c", "h", "a">>, html) \/ test(<<"r", "e", "c", "a", "p", "t", "c", "h", "a">>, html)
    THEN "recaptcha"
  ELSE IF test(<<"h", "c", "a", "p", "t", "c", "h", "a">>, html) THEN "hcaptcha"
  ELSE IF test(<<"c", "l", "o", "u", "d", "f", "l", "a", "r", "e">>, html) \/ test(<<"c", "f", "-", "b", "r", "o", "w", "s", "e", "r", "-", "v", "e", "r", "i", "f", "i", "c", "a", "t", "i", "o", "n">>, html) \/ test(<<"c", "h", "a", "l", "l", "e", "n", "g", "e", "-", "p", "l", "a", "t", "f", "o", "r", "m">>, html)
    THEN "cloudflare"
  ELSE Null

handleCaptcha(html) ==
  LET captchaType == getCaptchaType(html) IN
  IF captchaType # Null
    THEN [skip |-> TRUE, reason |-> captchaType]
    ELSE [skip |-> FALSE, reason |-> Null]

(***************************************************************************)
(* lib/validators/email.mjs                                                *)
(***************************************************************************)
\* const [localpart, domain] = email.split('@'); a piece that is missing
\* (undefined) is the empty string here: both are falsy
localpartOf(email) == split(email, "@")[1]
domainOf(email) ==
  LET parts == split(email, "@") IN IF Len(parts) >= 2 THEN parts[2] ELSE << >>

\* /^(info|kontakt|...|service)$/i
ROLE_LOCALPARTS ==
  { <<"i", "n", "f", "o">>,
    <<"k", "o", "n", "t", "a", "k", "t">>,
    <<"s", "u", "p", "p", "o", "r", "t">>,
    <<"s", "a", "l", "e", "s">>,
    <<"k", "u", "n", "d", "t", "j", "a", "n", "s", "t">>,
    <<"o", "f", "f", "i", "c", "e">>,
    <<"h", "e", "j">>,
    <<"h", "e", "l", "l", "o">>,
    <<"c", "o", "n", "t", "a", "c", "t">>,
    <<"a", "d", "m", "i", "n">>,
    <<"w", "e", "b", "m", "a", "s", "t", "e", "r">>,
    <<"i", "n", "q", "u", "i", "r", "y">>,
    <<"s", "e", "r", "v", "i", "c", "e">> }

testRoleLocalpart(localpart) == toLowerCase(localpart) \in ROLE_LOCALPARTS

\* /@(gmail|hotmail|...|mail\.com)/i
GENERIC_DOMAINS ==
  { <<"@", "g", "m", "a", "i", "l">>,
    <<"@", "h", "o", "t", "m", "a", "i", "l">>,
    <<"@", "o", "u", "t", "l", "o", "o", "k">>,
    <<"@", "y", "a", "h", "o", "o">>,
    <<"@", "l", "i", "v", "e">>,
    <<"@", "i", "c", "l", "o", "u", "d">>,
    <<"@", "p", "r", "o", "t", "o", "n", "m", "a", "i", "l">>,
    <<"@", "m", "e", ".", "c", "o", "m">>,
    <<"@", "a", "o", "l">>,
    <<"@", "g", "m", "x">>,
    <<"@", "m", "a", "i", "l", ".", "c", "o", "m">> }

testGenericDomain(email) ==
  LET e == toLowerCase(email) IN \E d \in GENERIC_DOMAINS : includes(e, d)

\* domain.endsWith(siteHost) || siteHost.endsWith(domain)
domainMatches(domain, siteHost) == endsWith(domain, siteHost) \/ endsWith(siteHost, domain)

\* /^[a-z]{1,2}$|^no-?reply/i
testShortOrNoReply(localpart) ==
  LET l == toLowerCase(localpart) IN
  \/ Len(l) \in 1..2 /\ \A i \in 1..Len(l) : l[i] \in Letters
  \/ startsWith(l, <<"n", "o", "r", "e", "p", "l", "y">>)
  \/ startsWith(l, <<"n", "o", "-", "r", "e", "p", "l", "y">>)

\* the MX check: ENABLE_MX_CHECK and what dns.resolveMx(domain) ends in
MxOutcomes ==
  { [enabled |-> FALSE, answer |-> "records"] }
    \cup [enabled : {TRUE}, answer : {"records", "empty", "throw"}]

\* ENABLE_MX_CHECK is not set
NoMx == [enabled |-> FALSE, answer |-> "records"]

classifyEmailMutantWebmailFirst(email, siteHost, mx) ==
  LET localpart == localpartOf(email)
      domain == domainOf(email)
  IN  IF localpart = << >> \/ domain = << >>
        THEN [emailType |-> "unknown", mxValid |-> FALSE]
        ELSE [ emailType |->
                 IF testGenericDomain(email) THEN "personal"
                 ELSE IF testRoleLocalpart(localpart) THEN "role"
                 ELSE IF domainMatches(domain, siteHost)
                   THEN (IF testShortOrNoReply(localpart) THEN "generic" ELSE "role")
                 ELSE "unknown",
               mxValid |-> IF mx.enabled THEN mx.answer = "records" ELSE TRUE ]

classifyEmail(email, siteHost, mx) ==
  LET localpart == localpartOf(email)
      domain == domainOf(email)
  IN  IF localpart = << >> \/ domain = << >>
        THEN [emailType |-> "unknown", mxValid |-> FALSE]
        ELSE [ emailType |->
                 IF testRoleLocalpart(localpart) THEN "role"
                 ELSE IF testGenericDomain(email) THEN "personal"
                 ELSE IF domainMatches(domain, siteHost)
                   THEN (IF testShortOrNoReply(localpart) THEN "generic" ELSE "role")
                 ELSE "unknown",
               mxValid |-> IF mx.enabled THEN mx.answer = "records" ELSE TRUE ]

\* the sum of scoreEmail before it is clamped
rawScore(email, emailType, siteHost) ==
  LET localpart == localpartOf(email)
      domain == domainOf(email)
      e == toLowerCase(email)
  IN  50
      + (IF domain # << >> /\ domainMatches(domain, siteHost) THEN 30 ELSE 0)
      + (IF emailType = "role" THEN 20 ELSE 0)
      - (IF emailType = "personal" THEN 10 ELSE 0)
      - (IF emailType = "generic" THEN 20 ELSE 0)
      + (IF testRoleLocalpart(localpart) THEN 10 ELSE 0)
      - (IF includes(e, <<"n", "o", "r", "e", "p", "l", "y">>) \/ includes(e, <<"n", "o", "-", "r", "e", "p", "l", "y">>) \/ includes(e, <<"d", "o", "n", "o", "t", "r", "e", "p", "l", "y">>)
           THEN 50 ELSE 0)
      - (IF includes(e, <<"t", "e", "s", "t">>) \/ includes(e, <<"e", "x", "a", "m", "p", "l", "e">>) \/ includes(e, <<"p", "l", "a", "c", "e", "h", "o", "l", "d", "e", "r">>)
           THEN 50 ELSE 0)

scoreEmailMutantUnclamped(email, emailType, siteHost) ==
  rawScore(email, emailType, siteHost)

\* Math.max(0, Math.min(100, score))
scoreEmail(email, emailType, siteHost) ==
  Max(0, Min(100, rawScore(email, emailType, siteHost)))

\* validateEmailFormat: isValidEmail of the package email-validator, as far
\* as the addresses of the model go: one @, a local part, a dotted domain,
\* no blank
validateEmailFormat(email) ==
  LET parts == split(email, "@") IN
  /\ Len(parts) = 2
  /\ parts[1] # << >>
  /\ \A i \in 1..Len(email) : email[i] # " "
  /\ LET labels == split(parts[2], ".") IN
     /\ Len(labels) >= 2
     /\ \A i \in 1..Len(labels) : labels[i] # << >>

(***************************************************************************)
(* lib/crawler.mjs: the per-URL result                                     *)
(***************************************************************************)
ALLOWED_TLDS == { <<"s", "e">>, <<"c", "o", "m">>, <<"i", "n", "f", "o">>, <<"n", "u">>, <<"o", "r", "g">>, <<"n", "e", "t">> }

\* /(example\.com|user@domain\.com|noreply|donotreply|no-reply|test@|placeholder|u003e)/i
BAD_EMAILS ==
  { <<"e", "x", "a", "m", "p", "l", "e", ".", "c", "o", "m">>,
    <<"u", "s", "e", "r", "@", "d", "o", "m", "a", "i", "n", ".", "c", "o", "m">>,
    <<"n", "o", "r", "e", "p", "l", "y">>,
    <<"d", "o", "n", "o", "t", "r", "e", "p", "l", "y">>,
    <<"n", "o", "-", "r", "e", "p", "l", "y">>,
    <<"t", "e", "s", "t", "@">>,
    <<"p", "l", "a", "c", "e", "h", "o", "l", "d", "e", "r">>,
    <<"u", "0", "0", "3", "e">> }

testBadEmail(email) ==
  LET e == toLowerCase(email) IN \E b \in BAD_EMAILS : includes(e, b)

\* domain.split('.').pop()?.toLowerCase()
tldOf(domain) == LET labels == split(domain, ".") IN toLowerCase(labels[Len(labels)])

RECURSIVE cleanFrom(_, _, _)
cleanFrom(emails, i, seen) ==
  IF i > Len(emails) THEN << >>
  ELSE LET item == emails[i]
           email == toLowerCase(trim(item.email))
       IN  IF \/ email = << >>
              \/ email \in seen
              \/ testBadEmail(email)
              \/ ~validateEmailFormat(email)
              \/ localpartOf(email) = << >>
              \/ domainOf(email) = << >>
              \/ tldOf(domainOf(email)) \notin ALLOWED_TLDS
             THEN cleanFrom(emails, i + 1, seen)
             ELSE << [email |-> email, source |-> item.source,
                      confidence |-> item.confidence] >>
                  \o cleanFrom(emails, i + 1, seen \cup {email})

cleanEmailsMutantUnfiltered(emails) ==
  [ i \in 1..Len(emails) |->
      [ email |-> toLowerCase(trim(emails[i].email)), source |-> emails[i].source,
        confidence |-> emails[i].confidence ] ]

cleanEmails(emails) == cleanFrom(emails, 1, {})

NullResult == [kind |-> "null"]
Pending == [kind |-> "pending"]
NoCall == [kind |-> "none"]

\* crawlUrl's result object for a fetched page
pageResult(html) ==
  [ kind |-> "result",
    emails |-> cleanEmails(html.emails),
    phones |-> html.phones,
    socials |-> html.socials ]

\* pageResult of every body of the model
pageResults == [html \in Bodies \cup MergeBodies \cup ExtractBodies |-> pageResult(html)]

(***************************************************************************)
(* lib/cache.mjs: values are stored as JSON text                           *)
(***************************************************************************)
JSONstringify(r) == << "json", r.emails, r.phones, r.socials >>

JSONparseMutantDropsPhones(text) ==
  [ kind |-> "result", emails |-> text[2], phones |-> << >>, socials |-> text[4] ]

JSONparse(text) ==
  [ kind |-> "result", emails |-> text[2], phones |-> text[3], socials |-> text[4] ]

\* a stored text that JSON.parse throws on
Undecodable == << "{", << >>, << >>, NoSocials >>

\* the mutant of decodable that parses anything
decodableMutantAnything(text) == TRUE

\* JSON.parse(text) returns
decodable(text) == text[1] = "json"


(***************************************************************************)
(* State.                                                                  *)
(***************************************************************************)
VARIABLES
  task,          \* task p: one crawlSite call and its position (see NewTask)
  DNC_LIST,      \* lib/doNotContact.mjs: the set DNC_LIST
  redisStore,    \* lib/cache.mjs: the cache backend, URL -> JSON text
  robotsCache,   \* lib/robots.mjs: cache, origin -> parsed policy
  hostLimiters,  \* lib/rateLimiter.mjs: hostLimiters, host -> limiter state
  globalLimiter, \* lib/rateLimiter.mjs: globalLimiter
  prev,          \* history: a finished crawlUrl call, its URL and what it returned
  world,         \* what the network may answer in this behaviour
  now,           \* the clock, in milliseconds (it runs when world.timed)
  sent,          \* history: the HTTP requests sent, [host, at, page] (when world.timed)
  unit,          \* a function of the program called on its own: [fn, in, done, out]
  job            \* worker.mjs: one run of the job handler and its position

vars == << task, DNC_LIST, redisStore, robotsCache, hostLimiters, globalLimiter,
           prev, world, now, sent, unit, job >>

Put(f, k, v) == [x \in DOMAIN f \cup {k} |-> IF x = k THEN v ELSE f[x]]
Remove(f, k) == [x \in DOMAIN f \ {k} |-> f[x]]
EmptyMap == [x \in {} |-> x]

\* history of one crawlUrl call
FreshCall ==
  [ active |-> FALSE, idx |-> 0, before |-> [ret |-> NoCall, stored |-> FALSE],
    lookup |-> FALSE, hit |-> FALSE, safe |-> "unknown", allowed |-> "unknown",
    fetched |-> FALSE, saw4xx |-> FALSE, io |-> {}, stored |-> FALSE,
    counted |-> << >>,    \* the statuses crawlUrl incremented crawlCounter for
    caught |-> FALSE,     \* an error of the fetch reached crawlUrl's catch
    found |-> << >>,      \* the emails extractContacts found on the fetched page
    \* history: the answer of the last fetchHtml call that settled, and the
    \* statuses that call incremented crawlCounter for, in order
    fetchHtml |-> [kind |-> "none", status |-> 0, html |-> FALSE, counted |-> << >>],
    connected |-> {},     \* history: the addresses the GETs of the call went to
    ret |-> NoCall ]

EmptyResults ==
  [ domain |-> << >>,     \* host
    emails |-> << >>,     \* the Map, as its entries in insertion order
    phones |-> << >>,     \* the Set, as its elements in insertion order
    socials |-> NoSocials,
    sourcePages |-> {}, errors |-> << >> ]

NewTask(site, config, redis) ==
  [ site |-> site, config |-> config, redis |-> redis,
    pc |-> "idle",
    results |-> EmptyResults,
    idx |-> 0,            \* position in pagesToCrawl
    crawlDelay |-> 0,     \* the Crawl-delay (s) crawlUrl sleeps for
    attempt |-> 0,        \* fetchHtml's attempt
    retryCount |-> 0,     \* the host limiter's retryCount of the job
    lastStatus |-> 0,     \* status of the response fetchHtml backs off for
    result |-> NullResult, \* crawlUrl's result while setCached is awaited
    wake |-> 0,           \* when the await of the task settles (world.timed)
    fetchCalls |-> 0,     \* history: fetchHtml(url) calls of this crawlSite call
    call |-> FreshCall ]

Tasks == DOMAIN task

\* new Bottleneck({...}) of getHostLimiter; lastStart < 0: no job started yet
NewLimiter(created) ==
  [ running |-> 0, lastStart |-> -1, reservoir |-> RESERVOIR,
    refreshAt |-> created + RESERVOIR_REFRESH_INTERVAL ]

\* const maxPages = config.maxPages || 5 (maxPages 0: absent)
maxPages(config) ==
  IF config.maxPages = 0 THEN DEFAULT_MAX_PAGES ELSE config.maxPages

\* pagesToCrawl: [...].slice(0, maxPages), as the number of its elements
pagesToCrawl(config) == Min(maxPages(config), Len(PAGE_PATHS))

url(t) == Url(t.site, t.idx)

(***************************************************************************)
(* crawlSite, lines 204-235: a non-null page result is merged              *)
(***************************************************************************)
\* results.emails.has(email)
has(emails, email) == \E i \in 1..Len(emails) : emails[i].email = email

\* the mutant of firstSighting that takes the last branch for the path
firstSightingMutantFooter(email, source, host) ==
  LET emailType == classifyEmail(email, host, NoMx).emailType IN
  [ email |-> email,
    emailType |-> emailType,
    confidence |-> scoreEmail(email, emailType, host),
    sources |-> << source >>,
    discoveryPath |-> "footer" ]

\* lines 210-220: the entry set for an email that is not in the map
firstSighting(email, source, host) ==
  LET emailType == classifyEmail(email, host, NoMx).emailType IN
  [ email |-> email,
    emailType |-> emailType,
    confidence |-> scoreEmail(email, emailType, host),   \* in hundredths
    sources |-> << source >>,
    discoveryPath |-> source ]

\* lines 221-224: existing.sources.push(source)
laterSightingMutantReplaces(existing, source) ==
  [existing EXCEPT !.sources = << source >>]

laterSighting(existing, source) ==
  [existing EXCEPT !.sources = Append(@, source)]

RECURSIVE mergeEmails(_, _, _, _)
mergeEmails(emails, items, i, host) ==
  IF i > Len(items) THEN emails
  ELSE LET item == items[i] IN
       mergeEmails(
         IF ~has(emails, item.email)
           THEN Append(emails, firstSighting(item.email, item.source, host))
           ELSE [k \in 1..Len(emails) |->
                   IF emails[k].email = item.email
                     THEN laterSighting(emails[k], item.source)
                     ELSE emails[k]],
         items, i + 1, host)

\* results.phones.add(phone), for each phone of the page
RECURSIVE addPhones(_, _, _)
addPhones(phones, items, i) ==
  IF i > Len(items) THEN phones
  ELSE addPhones(IF \E k \in 1..Len(phones) : phones[k] = items[i]
                   THEN phones
                   ELSE Append(phones, items[i]),
                 items, i + 1)

\* lines 232-234: if (pageResult.socials.f) results.socials.f = pageResult.socials.f
adoptMutantAlways(old, new) == new

adopt(old, new) == IF new # Null THEN new ELSE old

aggregate(results, u, r) ==
  [ results EXCEPT
      !.sourcePages = @ \cup {u},
      !.emails = mergeEmails(@, r.emails, 1, u.host),
      !.phones = addPhones(@, r.phones, 1),
      !.socials = [ linkedin |-> adopt(@.linkedin, r.socials.linkedin),
                    facebook |-> adopt(@.facebook, r.socials.facebook),
                    x |-> adopt(@.x, r.socials.x) ] ]

\* toContactRecords and createContactRecord: one record per entry of the map
toContactRecords(crawlResult) ==
  [ k \in 1..Len(crawlResult.emails) |->
      LET data == crawlResult.emails[k] IN
      [ domain |-> crawlResult.domain,
        email |-> data.email,
        emailType |-> data.emailType,
        confidence |-> data.confidence,
        discoveryPath |-> data.discoveryPath,
        phone |-> IF crawlResult.phones # << >> THEN crawlResult.phones[1] ELSE Null,
        social |-> crawlResult.socials,
        rawEvidence |-> data.sources ] ]

\* the mutant of nextPage that gives the site up after a page without result
nextPageMutantGivesUp(t) ==
  IF t.idx < pagesToCrawl(t.config) /\ t.call.ret.kind # "null"
    THEN [t EXCEPT !.idx = @ + 1, !.pc = "delay"]
    ELSE [t EXCEPT !.pc = "done"]

\* the for loop of crawlSite goes on to the next page, or crawlSite returns
nextPage(t) ==
  IF t.idx < pagesToCrawl(t.config)
    THEN [t EXCEPT !.idx = @ + 1, !.pc = "delay"]
    ELSE [t EXCEPT !.pc = "done"]

\* crawlUrl returns r to crawlSite (line 201), which merges it
returnUrl(t, r) ==
  nextPage([t EXCEPT !.call.ret = r,
                     !.attempt = 0, !.retryCount = 0, !.lastStatus = 0,
                     !.crawlDelay = 0,
                     !.results = IF r.kind = "null" THEN @ ELSE aggregate(@, url(t), r)])

(***************************************************************************)
(* crawlUrl, from one await to the next                                    *)
(***************************************************************************)
\* withRateLimit: the job is queued on globalLimiter
enterLimiter(t) == [t EXCEPT !.pc = "wait_global", !.retryCount = 0, !.crawlDelay = 0]

\* lib/robots.mjs, lines 30-31 and 35-39: the policy isAllowed parses from
\* what its request for robots.txt ended in
robotsPolicyMutantStrict(reply) ==
  IF reply.kind = "ok" THEN reply.policy ELSE [disallow |-> AllPaths, crawlDelay |-> 0]

robotsPolicy(reply) ==
  IF reply.kind = "ok" THEN reply.policy ELSE Permissive

\* lib/robots.mjs, lines 43-46: what isAllowed returns under a policy
robotsAnswer(policy, u) ==
  [ kind |-> "result",
    allowed |-> pathname(u) \notin policy.disallow,
    crawlDelay |-> policy.crawlDelay ]

\* lines 100-113, with the policy isAllowed found or fetched
afterRobotsMutantIgnored(t, policy) ==
  LET t1 == [t EXCEPT !.call.allowed =
                        IF pathname(url(t)) \in policy.disallow THEN "no" ELSE "yes"]
  IN  IF policy.crawlDelay > 0
        THEN [t1 EXCEPT !.pc = "crawl_delay", !.crawlDelay = policy.crawlDelay]
        ELSE enterLimiter(t1)

\* lines 101-105: the URL is disallowed
robotsBlockedMutantUncounted(t) ==
  returnUrl([t EXCEPT !.call.allowed = "no"], NullResult)

robotsBlocked(t) ==
  returnUrl([t EXCEPT !.call.allowed = "no",
                      !.call.counted = Append(@, "robots-blocked")], NullResult)

afterRobots(t, policy) ==
  IF pathname(url(t)) \in policy.disallow
    THEN robotsBlocked(t)
  ELSE IF policy.crawlDelay > 0
    THEN [t EXCEPT !.call.allowed = "yes", !.pc = "crawl_delay",
                   !.crawlDelay = policy.crawlDelay]
  ELSE enterLimiter([t EXCEPT !.call.allowed = "yes"])

\* lines 92-100, once dns.resolve4 has answered: robots.txt comes from the
\* robots cache or is requested
afterDnsMutantIgnored(t, answer, cache) ==
  LET t1 == [t EXCEPT !.call.safe =
                        IF isSafeUrlResolved(answer) THEN "safe" ELSE "unsafe"] IN
  IF origin(url(t)) \in DOMAIN cache
    THEN afterRobots(t1, cache[origin(url(t))])
    ELSE [t1 EXCEPT !.pc = "robots_fetch", !.call.io = @ \cup {"robots"}]

afterDns(t, answer, cache) ==
  IF ~isSafeUrlResolved(answer)
    THEN returnUrl([t EXCEPT !.call.safe = "unsafe"], NullResult)
  ELSE LET t1 == [t EXCEPT !.call.safe = "safe"] IN
       IF origin(url(t)) \in DOMAIN cache
         THEN afterRobots(t1, cache[origin(url(t))])
         ELSE [t1 EXCEPT !.pc = "robots_fetch", !.call.io = @ \cup {"robots"}]

\* lines 92-97, once getCached has returned null: isSafeUrl up to its DNS query
afterCacheMiss(t) ==
  IF isSafeUrlSync(url(t)) = "unsafe"
    THEN returnUrl([t EXCEPT !.call.safe = "unsafe"], NullResult)
    ELSE [t EXCEPT !.pc = "dns", !.call.io = @ \cup {"dns"}]

\* lines 86-90, with what getCached returned
afterGetCached(t, cached) ==
  IF cached.kind # "null"
    THEN returnUrl([t EXCEPT !.call.hit = TRUE, !.call.stored = TRUE], cached)
    ELSE afterCacheMiss(t)

(***************************************************************************)
(* lib/fetcher.mjs and the 'failed' handler of lib/rateLimiter.mjs         *)
(***************************************************************************)
\* res.ok
ok(resp) == resp.kind = "http" /\ resp.status >= 200 /\ resp.status <= 299

\* line 37: a server error is retried while attempt < MAX_RETRIES
shouldRetryMutantAnyError(resp, attempt) ==
  resp.kind = "http" /\ ~ok(resp) /\ attempt < MAX_RETRIES

shouldRetry(resp, attempt) ==
  resp.kind = "http" /\ ~ok(resp) /\ resp.status >= 500 /\ attempt < MAX_RETRIES

\* line 38-40: the delay before the retry
retryDelay(attempt, jitter) == Min(BACKOFF_BASE * 2^attempt, BACKOFF_MAX) + jitter

\* limiter.on('failed'): a number (the job is run again after 2 s) or nothing
failedHandlerRetriesMutantThrice(retryCount) == retryCount < LIMITER_MAX_RETRY_COUNT + 1

failedHandlerRetries(retryCount) == retryCount < LIMITER_MAX_RETRY_COUNT

\* fn() threw: the host limiter runs the job again, or the error reaches
\* crawlUrl's catch, which returns null
fetchFailed(t) ==
  IF failedHandlerRetries(t.retryCount)
    THEN [t EXCEPT !.pc = "limiter_retry", !.retryCount = @ + 1]
    ELSE returnUrl([t EXCEPT !.call.caught = TRUE], NullResult)

\* lib/cache.mjs, lines 24 and 51: if (!ENABLE_CACHE || !redis) return
cacheOn(t) == world.enableCache /\ t.redis

\* crawlUrl, lines 115-141, with the html fetchHtml returned
\* the mutant of fetchSucceeded that caches the page of a challenge too
fetchSucceededMutantCachesChallenge(t, html) ==
  LET t1 == [t EXCEPT !.call.found = html.emails,
                      !.call.counted = IF handleCaptcha(html).skip
                                         THEN Append(@, "captcha") ELSE @] IN
  IF cacheOn(t)
    THEN [t1 EXCEPT !.pc = "cache_set", !.result = pageResults[html]]
    ELSE returnUrl(t1, pageResults[html])

fetchSucceeded(t, html) ==
  IF handleCaptcha(html).skip
    THEN returnUrl([t EXCEPT !.call.counted = Append(@, "captcha")], NullResult)
  ELSE LET t1 == [t EXCEPT !.call.found = html.emails] IN
       IF cacheOn(t)
         THEN [t1 EXCEPT !.pc = "cache_set", !.result = pageResults[html]]
         ELSE returnUrl(t1, pageResults[html])

\* fetchHtml, lines 36-100, with the outcome of fetch(url)
\* lines 54-67: the status a response that is not ok is counted under
notOkStatus(status) ==
  << IF status = 403 \/ status = 429 THEN "blocked"
     ELSE IF status = 404 THEN "404"
     ELSE "error" >>

\* lines 20-87: what the try block increments, given the answer of fetch
countedInTry(resp) ==
  IF resp.kind # "http" THEN << >>              \* fetch threw
  ELSE IF ~ok(resp) THEN notOkStatus(resp.status)
  ELSE IF ~resp.html THEN << "non-html" >>
  ELSE << "success" >>

\* the try block throws: fetch threw, or line 66 or 74 did
throws(resp) == resp.kind # "http" \/ ~ok(resp) \/ ~resp.html

\* lines 89-100: the catch block; err.name of the errors of lines 66 and 74
\* is Error
countedInCatch(resp) ==
  IF resp.kind = "AbortError" THEN << "timeout" >> ELSE << "error" >>

\* the statuses a fetchHtml call that got resp and does not retry
\* increments crawlCounter for
crawlCounterIncs(resp) ==
  countedInTry(resp) \o (IF throws(resp) THEN countedInCatch(resp) ELSE << >>)

afterFetch(t, resp) ==
  LET t0 == [t EXCEPT !.call.saw4xx = @ \/ (resp.status >= 400 /\ resp.status <= 499)]
      t1 == IF world.metered /\ ~shouldRetry(resp, t.attempt)
              THEN [t0 EXCEPT !.call.fetchHtml =
                      [kind |-> resp.kind, status |-> resp.status, html |-> resp.html,
                       counted |-> crawlCounterIncs(resp)]]
              ELSE t0
  IN  IF shouldRetry(resp, t.attempt)
        THEN [t1 EXCEPT !.pc = "backoff", !.lastStatus = resp.status]
      ELSE IF ok(resp) /\ resp.html THEN fetchSucceeded(t1, resp.body)
      ELSE fetchFailed(t1)

\* fetchHtml sends its GET
sendGet(t, attempt) ==
  [t EXCEPT !.pc = "fetching", !.attempt = attempt, !.lastStatus = 0,
            !.call.fetched = TRUE, !.call.io = @ \cup {"fetch"}]

(***************************************************************************)
(* The limiters' slots follow from the position of the task: the job of    *)
(* globalLimiter runs from its admission until hostLimiter.schedule        *)
(* settles, the job of the host limiter from its admission until fn has    *)
(* settled for the last time.                                              *)
(***************************************************************************)
holdsGlobal(pc) == pc \in {"wait_host", "fetching", "backoff", "limiter_retry"}
holdsHost(pc) == pc \in {"fetching", "backoff", "limiter_retry"}

\* an HTTP request of the task is on the wire
requesting(pc) == pc \in {"robots_fetch", "fetching"}

siteHost(t) == hostname(Url(t.site, 1))

\* the HTTP requests to host h that are in flight
inFlight(h) == { p \in Tasks : siteHost(task[p]) = h /\ requesting(task[p].pc) }

\* Bottleneck: a job starts when a slot is free, minTime after the last
\* start, and (host limiter) when the reservoir is not empty
globalAdmitsMutantUnlimited ==
  world.timed =>
    \/ globalLimiter.lastStart < 0
    \/ now >= globalLimiter.lastStart + GLOBAL_MIN_TIME

globalAdmits ==
  /\ globalLimiter.running < world.globalConcurrency
  /\ world.timed =>
       \/ globalLimiter.lastStart < 0
       \/ now >= globalLimiter.lastStart + GLOBAL_MIN_TIME

\* the mutant of hostAdmits in which the job of the host limiter needs a
\* free slot of globalLimiter as well
hostAdmitsMutantNeedsGlobal(h) ==
  /\ hostLimiters[h].running < PER_HOST_MAX_CONCURRENT
  /\ globalLimiter.running < world.globalConcurrency

hostAdmits(h) ==
  /\ hostLimiters[h].running < PER_HOST_MAX_CONCURRENT
  /\ world.timed =>
       /\ hostLimiters[h].reservoir > 0
       /\ \/ hostLimiters[h].lastStart < 0
          \/ now >= hostLimiters[h].lastStart + PER_HOST_MIN_TIME

\* how long the await lasts that task t has reached
awaits(t) ==
  CASE t.pc = "delay" -> BETWEEN_REQUESTS_MS
    [] t.pc \in {"cache_get", "cache_set", "dns", "robots_fetch", "fetching"} -> world.latency
    [] t.pc = "crawl_delay" -> Max(BETWEEN_REQUESTS_MS, t.crawlDelay * 1000)
    [] t.pc = "backoff" -> retryDelay(t.attempt, world.jitter)
    [] t.pc = "limiter_retry" -> LIMITER_RETRY_DELAY
    [] OTHER -> 0

\* the await of task t has settled
due(t) == world.timed => t.wake <= now

\* a crawlUrl call returned in the step from t to t2
returned(t, t2) ==
  /\ t2.call.active
  /\ t2.call.ret.kind \in {"null", "result"}
  /\ \/ ~t.call.active
     \/ t.call.ret.kind = "pending"
     \/ t.call.idx # t2.call.idx

\* The observer of successive calls: it remembers one finished call, any
\* one, until the next call of the same URL has finished.
NoPrev == [seen |-> FALSE, idx |-> 0, ret |-> NoCall, stored |-> FALSE]

observe(pr, call) ==
  { [seen |-> TRUE, idx |-> call.idx, ret |-> call.ret, stored |-> call.stored] }
    \cup (IF pr.seen /\ pr.idx # call.idx THEN {pr} ELSE {NoPrev})

\* task p becomes t2; the shared state that follows from its position
Commit(p, next) ==
  \E t2 \in {next} :     \* next, evaluated once
  LET t == task[p]
      h == siteHost(t)
      hl == IF t2.pc = "wait_global" /\ h \notin DOMAIN hostLimiters
              THEN Put(hostLimiters, h, NewLimiter(now))   \* getHostLimiter
              ELSE hostLimiters
      started(l) == [l EXCEPT !.running = @ + 1,
                              !.lastStart = IF world.timed THEN now ELSE @]
  IN  /\ task' = [task EXCEPT ![p] =
                    [t2 EXCEPT !.wake = IF world.timed THEN now + awaits(t2) ELSE 0]]
      /\ IF world.again /\ returned(t, t2)
           THEN prev' \in observe(prev, t2.call)
           ELSE prev' = prev
      /\ globalLimiter' =
           IF holdsGlobal(t2.pc) /\ ~holdsGlobal(t.pc) THEN started(globalLimiter)
           ELSE IF holdsGlobal(t.pc) /\ ~holdsGlobal(t2.pc)
             THEN [globalLimiter EXCEPT !.running = @ - 1]
           ELSE globalLimiter
      /\ hostLimiters' =
           IF holdsHost(t2.pc) /\ ~holdsHost(t.pc)
             THEN [hl EXCEPT ![h] = [started(@) EXCEPT
                     !.reservoir = IF world.timed THEN @ - 1 ELSE @]]
           ELSE IF holdsHost(t.pc) /\ ~holdsHost(t2.pc)
             THEN [hl EXCEPT ![h].running = @ - 1]
           ELSE hl
      /\ sent' = IF world.timed /\ requesting(t2.pc)
                   THEN Append(sent, [host |-> h, at |-> now,
                                      page |-> t2.pc = "fetching"])
                   ELSE sent
      /\ unit' = unit
      /\ job' = job

(***************************************************************************)
(* Actions                                                                 *)
(***************************************************************************)
\* crawlSite, lines 157-199: up to the first politeness sleep
crawlSite_start(p) ==
  LET t == task[p]
      tos == checkTos(t.site.host)
      t1 == [t EXCEPT !.results = [EmptyResults EXCEPT !.domain = t.site.host]]
  IN  /\ t.pc = "idle"
      /\ Commit(p,
           IF isDncDomain(DNC_LIST, t.site.host)
             THEN [t1 EXCEPT !.results.errors = << [reason |-> DncReason] >>,
                             !.pc = "done"]
             ELSE nextPage([t1 EXCEPT !.results.errors =
                              IF tos.restricted THEN << [reason |-> tos.reason] >>
                                                ELSE << >>]))
      /\ UNCHANGED << DNC_LIST, redisStore, robotsCache, world, now >>

\* the sleep is over: crawlUrl starts, lines 83-93
crawlUrl_start(p) ==
  LET t == task[p]
      t1 == [t EXCEPT !.call = [FreshCall EXCEPT
                                  !.active = TRUE, !.idx = t.idx, !.ret = Pending,
                                  !.before = IF prev.seen /\ prev.idx = t.idx
                                               THEN [ret |-> prev.ret, stored |-> prev.stored]
                                               ELSE FreshCall.before],
                      !.attempt = 0, !.retryCount = 0, !.lastStatus = 0]
  IN  /\ t.pc = "delay"
      /\ due(t)
      /\ Commit(p,
           IF cacheOn(t)
             THEN [t1 EXCEPT !.pc = "cache_get", !.call.lookup = TRUE]
             ELSE afterGetCached(t1, NullResult))
      /\ UNCHANGED << DNC_LIST, redisStore, robotsCache, world, now >>

\* getCached: redis.get has answered, or thrown; JSON.parse returns or throws
getCached_reply(p) ==
  LET t == task[p]
      u == url(t)
  IN  /\ t.pc = "cache_get"
      /\ due(t)
      /\ \E failed \in world.redisFails :
           Commit(p, afterGetCached(t,
             IF ~failed /\ u \in DOMAIN redisStore /\ decodable(redisStore[u])
               THEN JSONparse(redisStore[u]) ELSE NullResult))
      /\ UNCHANGED << DNC_LIST, redisStore, robotsCache, world, now >>

\* isSafeUrl: dns.resolve4 has answered, or thrown
isSafeUrl_resolved(p) ==
  LET t == task[p] IN
  /\ t.pc = "dns"
  /\ due(t)
  /\ \E answer \in world.dns : Commit(p, afterDns(t, answer, robotsCache))
  /\ UNCHANGED << DNC_LIST, redisStore, robotsCache, world, now >>

\* isAllowed: the request for robots.txt has ended; the policy is cached
isAllowed_fetched(p) ==
  LET t == task[p] IN
  /\ t.pc = "robots_fetch"
  /\ due(t)
  /\ \E reply \in world.robots :
       LET policy == robotsPolicy(reply) IN
       /\ robotsCache' = Put(robotsCache, origin(url(t)), policy)
       /\ Commit(p, afterRobots(t, policy))
  /\ UNCHANGED << DNC_LIST, redisStore, world, now >>

\* the Crawl-delay sleep is over
crawlDelay_elapsed(p) ==
  LET t == task[p] IN
  /\ t.pc = "crawl_delay"
  /\ due(t)
  /\ Commit(p, enterLimiter(t))
  /\ UNCHANGED << DNC_LIST, redisStore, robotsCache, world, now >>

\* globalLimiter admits the job, which schedules fn on the host limiter
globalLimiter_admit(p) ==
  LET t == task[p] IN
  /\ t.pc = "wait_global"
  /\ globalAdmits
  /\ Commit(p, [t EXCEPT !.pc = "wait_host"])
  /\ UNCHANGED << DNC_LIST, redisStore, robotsCache, world, now >>

\* the host limiter admits the job: fn() calls fetchHtml(url)
hostLimiter_admit(p) ==
  LET t == task[p] IN
  /\ t.pc = "wait_host"
  /\ hostAdmits(siteHost(t))
  /\ Commit(p, sendGet([t EXCEPT !.fetchCalls = @ + 1], 0))
  /\ UNCHANGED << DNC_LIST, redisStore, robotsCache, world, now >>

\* line 21: fetch(url, { signal, headers }) is given the URL, not the
\* addresses isSafeUrl saw, and no redirect option: it looks the host up
\* itself and follows redirects
connect(t, route) ==
  [t EXCEPT !.call.connected = @ \cup { route[i] : i \in 1..Len(route) }]

\* fetch(url) has answered, thrown or been aborted
fetchHtml_response(p) ==
  LET t == task[p] IN
  /\ t.pc = "fetching"
  /\ due(t)
  /\ \E resp \in world.responses[t.attempt], route \in world.routes :
       Commit(p, connect(afterFetch(t, resp), route))
  /\ UNCHANGED << DNC_LIST, redisStore, robotsCache, world, now >>

\* the backoff is over: fetchHtml(url, attempt + 1)
fetchHtml_retry(p) ==
  LET t == task[p] IN
  /\ t.pc = "backoff"
  /\ due(t)
  /\ Commit(p, sendGet(t, t.attempt + 1))
  /\ UNCHANGED << DNC_LIST, redisStore, robotsCache, world, now >>

\* 2 s after the failure the host limiter runs fn() again: fetchHtml(url)
hostLimiter_retry(p) ==
  LET t == task[p] IN
  /\ t.pc = "limiter_retry"
  /\ due(t)
  /\ Commit(p, sendGet([t EXCEPT !.fetchCalls = @ + 1], 0))
  /\ UNCHANGED << DNC_LIST, redisStore, robotsCache, world, now >>

\* setCached: redis.setex has answered, or thrown; crawlUrl returns result
setCached_reply(p) ==
  LET t == task[p] IN
  /\ t.pc = "cache_set"
  /\ due(t)
  /\ \E failed \in world.redisFails :
       /\ redisStore' = IF failed THEN redisStore
                        ELSE Put(redisStore, url(t), JSONstringify(t.result))
       /\ Commit(p, returnUrl([t EXCEPT !.call.stored = ~failed, !.result = NullResult],
                              t.result))
  /\ UNCHANGED << DNC_LIST, robotsCache, world, now >>

\* crawlSite has returned results; a later job crawls the site again
crawlSite_return(p) ==
  LET t == task[p] IN
  /\ t.pc = "done"
  /\ Commit(p, NewTask(t.site, t.config, t.redis))
  /\ UNCHANGED << DNC_LIST, redisStore, robotsCache, world, now >>

\* a cache entry reaches its TTL (CACHE_TTL, 7 days)
redis_expire ==
  /\ \E u \in DOMAIN redisStore : redisStore' = Remove(redisStore, u)
  /\ UNCHANGED << task, DNC_LIST, robotsCache, hostLimiters, globalLimiter, prev,
                  world, now, sent, unit, job >>

\* another client of the backend overwrites a cache entry with a text that
\* is no JSON
redis_corrupt ==
  /\ \E u \in DOMAIN redisStore :
       /\ redisStore[u] # Undecodable
       /\ redisStore' = [redisStore EXCEPT ![u] = Undecodable]
  /\ UNCHANGED << task, DNC_LIST, robotsCache, hostLimiters, globalLimiter, prev,
                  world, now, sent, unit, job >>

\* a robots policy reaches its TTL (stdTTL, 1 hour)
robots_expire ==
  /\ \E o \in DOMAIN robotsCache : robotsCache' = Remove(robotsCache, o)
  /\ UNCHANGED << task, DNC_LIST, redisStore, hostLimiters, globalLimiter, prev,
                  world, now, sent, unit, job >>

\* the reservoir of a host limiter is refilled, every minute
reservoir_refresh(h) ==
  /\ world.timed
  /\ hostLimiters[h].refreshAt <= now
  /\ hostLimiters' = [hostLimiters EXCEPT ![h].reservoir = RESERVOIR,
                                          ![h].refreshAt = @ + RESERVOIR_REFRESH_INTERVAL]
  /\ UNCHANGED << task, DNC_LIST, redisStore, robotsCache, globalLimiter, prev,
                  world, now, sent, unit, job >>

\* task p can take its next step at the present time
canStep(p) ==
  LET t == task[p] IN
  CASE t.pc = "done" -> FALSE
    [] t.pc = "wait_global" -> globalAdmits
    [] t.pc = "wait_host" -> hostAdmits(siteHost(t))
    [] OTHER -> t.wake <= now

\* the times at which a timer expires or a limiter may start a job
events ==
  { task[p].wake : p \in { q \in Tasks : task[q].pc \notin {"done", "wait_global", "wait_host"} } }
    \cup { globalLimiter.lastStart + GLOBAL_MIN_TIME :
             p \in { q \in Tasks : task[q].pc = "wait_global" } }
    \cup { hostLimiters[siteHost(task[p])].lastStart + PER_HOST_MIN_TIME :
             p \in { q \in Tasks : task[q].pc = "wait_host" } }
    \cup { hostLimiters[siteHost(task[p])].refreshAt :
             p \in { q \in Tasks : /\ task[q].pc = "wait_host"
                                   /\ hostLimiters[siteHost(task[q])].reservoir = 0 } }

\* nothing can run at the present time: the clock moves to the next event
tick ==
  /\ world.timed
  /\ ~ \E p \in Tasks : canStep(p)
  /\ ~ \E h \in DOMAIN hostLimiters : hostLimiters[h].refreshAt <= now
  /\ \E e \in events :
       /\ e > now
       /\ \A f \in events : f > now => e <= f
       /\ now' = e
  /\ UNCHANGED << task, DNC_LIST, redisStore, robotsCache, hostLimiters, globalLimiter,
                  prev, world, sent, unit, job >>

(***************************************************************************)
(* Spec: one site crawl, with everything the network may answer.           *)
(***************************************************************************)
FullWorld ==
  [ dns |-> DnsAnswers, robots |-> RobotsReplies,
    responses |-> [a \in 0..MAX_RETRIES |-> Responses],
    redisFails |-> {FALSE, TRUE},
    enableCache |-> TRUE,    \* lib/cache.mjs, line 4: ENABLE_CACHE
    \* lib/rateLimiter.mjs, line 6: parseInt(process.env.GLOBAL_CONCURRENCY) || 8
    globalConcurrency |-> GLOBAL_CONCURRENCY,
    again |-> FALSE, timed |-> FALSE, latency |-> 0, jitter |-> 0,
    \* the increments of crawlCounter by fetchHtml are recorded
    metered |-> FALSE,
    \* the routes a GET of fetch(url) may take: the address its own lookup
    \* of the host gives, then the addresses of the redirects it follows
    \* (the empty route: not recorded)
    routes |-> { << >> } ]

\* no function is called on its own
NoUnit == [fn |-> "none", in |-> << >>, done |-> FALSE, out |-> NoCall]

\* the worker runs no job
NoJob ==
  [ pc |-> "none", sites |-> << >>, config |-> [maxPages |-> 0],
    i |-> 0, allRecords |-> << >>, errors |-> << >>,
    progress |-> << >>,   \* history: the job.updateProgress calls, in order
    threw |-> << >>,      \* history: the indices i whose iteration threw
    \* history: the calls of the handler for site i + 1 and their ends
    \* (crawlSite, crawled, converted, logCrawl, logged), in order
    steps |-> << >>,
    activeJobs |-> 0,     \* lib/metrics.mjs: the gauge activeJobs
    outcome |-> NoCall ]

\* the state of the process before any crawl, with the given jobs and world
Start(jobs, w) ==
  /\ unit = NoUnit
  /\ job = NoJob
  /\ task = jobs
  /\ DNC_LIST = DNC_LIST_INIT
  /\ redisStore = EmptyMap
  /\ robotsCache = EmptyMap
  /\ hostLimiters = EmptyMap
  /\ globalLimiter = [running |-> 0, lastStart |-> -1]
  /\ prev = NoPrev
  /\ world = w
  /\ now = 0
  /\ sent = << >>

Init ==
  \E site \in Sites, n \in 1..MaxPagesCfg, redis \in BOOLEAN :
    Start([p \in {1} |-> NewTask(site, [maxPages |-> n], redis)], FullWorld)

Next ==
  \/ \E p \in Tasks :
       \/ crawlSite_start(p)
       \/ crawlUrl_start(p)
       \/ getCached_reply(p)
       \/ isSafeUrl_resolved(p)
       \/ isAllowed_fetched(p)
       \/ crawlDelay_elapsed(p)
       \/ globalLimiter_admit(p)
       \/ hostLimiter_admit(p)
       \/ fetchHtml_response(p)
       \/ fetchHtml_retry(p)
       \/ hostLimiter_retry(p)
       \/ setCached_reply(p)
  \/ redis_expire
  \/ robots_expire

Spec == Init /\ [][Next]_vars

(***************************************************************************)
(* SpecCache: one site is crawled again and again, with the cache on.      *)
(***************************************************************************)
\* a retried GET is answered with the page or with 500 again
CacheWorld ==
  [ FullWorld EXCEPT
      !.again = TRUE,
      !.responses = [a \in 0..MAX_RETRIES |->
                       IF a = 0 THEN Responses
                       ELSE { r \in Responses :
                                \/ r.status = 500
                                \/ r.status = 200 /\ r.html /\ r.body = HtmlInfo }] ]

InitCache ==
  \E n \in 1..CachePages :
    Start([p \in {1} |-> NewTask(SiteBSe, [maxPages |-> n], TRUE)], CacheWorld)

NextCache ==
  \/ Next
  \/ \E p \in Tasks : crawlSite_return(p)

SpecCache == InitCache /\ [][NextCache]_vars

(***************************************************************************)
(* SpecConc: NTasks jobs of the worker crawl their sites concurrently.     *)
(***************************************************************************)
ConcWorld ==
  [ FullWorld EXCEPT
      !.dns = { [ok |-> TRUE, addresses |-> <<PublicIp>>] },
      !.robots = { [kind |-> "ok", policy |-> Permissive] },
      !.responses = [a \in 0..MAX_RETRIES |->
                       { [kind |-> "http", status |-> 200, html |-> TRUE, body |-> HtmlInfo],
                         [kind |-> "http", status |-> 404, html |-> TRUE, body |-> HtmlInfo] }] ]

InitConc ==
  \E sites \in [1..NTasks -> {SiteBSe, SiteAxCom}] :
    Start([p \in 1..NTasks |-> NewTask(sites[p], [maxPages |-> 1], FALSE)], ConcWorld)

NextConc ==
  \/ \E p \in Tasks :
       \/ crawlSite_start(p)
       \/ crawlUrl_start(p)
       \/ isSafeUrl_resolved(p)
       \/ isAllowed_fetched(p)
       \/ globalLimiter_admit(p)
       \/ hostLimiter_admit(p)
       \/ fetchHtml_response(p)
       \/ hostLimiter_retry(p)
  \/ robots_expire

SpecConc == InitConc /\ [][NextConc]_vars

(***************************************************************************)
(* SpecTime: NTasks jobs crawl one host concurrently, with the clock. The  *)
(* origin answers the first GET of a fetchHtml call with 500 and the       *)
(* retry with the page.                                                    *)
(***************************************************************************)
TimeWorld ==
  [ ConcWorld EXCEPT
      !.responses = [a \in 0..MAX_RETRIES |->
                       IF a = 0
                         THEN { [kind |-> "http", status |-> 500, html |-> TRUE, body |-> HtmlInfo] }
                         ELSE { [kind |-> "http", status |-> 200, html |-> TRUE, body |-> HtmlInfo] }],
      !.timed = TRUE, !.latency = LatencyMs, !.jitter = JitterMs ]

InitTime ==
  \E n \in {0, Len(PAGE_PATHS)} :
    Start([p \in 1..NTasks |-> NewTask(SiteBSe, [maxPages |-> n], FALSE)], TimeWorld)

NextTime ==
  \/ \E p \in Tasks :
       \/ crawlSite_start(p)
       \/ crawlUrl_start(p)
       \/ isSafeUrl_resolved(p)
       \/ isAllowed_fetched(p)
       \/ globalLimiter_admit(p)
       \/ hostLimiter_admit(p)
       \/ fetchHtml_response(p)
       \/ fetchHtml_retry(p)
  \/ \E h \in DOMAIN hostLimiters : reservoir_refresh(h)
  \/ tick

SpecTime == InitTime /\ [][NextTime]_vars

(***************************************************************************)
(* SpecMerge: one crawl of example.se; every page answers with one of      *)
(* four bodies, whose contacts crawlSite merges.                           *)
(***************************************************************************)
SiteExampleSe == Site("https:", <<"e", "x", "a", "m", "p", "l", "e", ".", "s", "e">>)

MergeWorld ==
  [ ConcWorld EXCEPT
      !.responses = [a \in 0..MAX_RETRIES |->
                       [kind : {"http"}, status : {200}, html : {TRUE}, body : MergeBodies]] ]

InitMerge ==
  \E n \in 1..MergePages :
    Start([p \in {1} |-> NewTask(SiteExampleSe, [maxPages |-> n], FALSE)], MergeWorld)

NextMerge ==
  \E p \in Tasks :
    \/ crawlSite_start(p)
    \/ crawlUrl_start(p)
    \/ isSafeUrl_resolved(p)
    \/ isAllowed_fetched(p)
    \/ globalLimiter_admit(p)
    \/ hostLimiter_admit(p)
    \/ fetchHtml_response(p)

SpecMerge == InitMerge /\ [][NextMerge]_vars

(***************************************************************************)
(* SpecPages: one crawl of b.se or of x.com with config.maxPages absent,   *)
(* 1, 2 or PagesOver (more than the list of candidate paths is long);      *)
(* a page answers with a body or with 404, robots.txt may disallow         *)
(* /kontakt.                                                               *)
(***************************************************************************)
PagesWorld ==
  [ ConcWorld EXCEPT
      !.robots = { [kind |-> "ok", policy |-> Permissive],
                   [kind |-> "ok", policy |-> [disallow |-> {"/kontakt"}, crawlDelay |-> 0]] } ]

InitPages ==
  \E site \in {SiteBSe, SiteXCom}, n \in {0, 1, 2, PagesOver} :
    Start([p \in {1} |-> NewTask(site, [maxPages |-> n], FALSE)], PagesWorld)

NextPages ==
  \E p \in Tasks :
    \/ crawlSite_start(p)
    \/ crawlUrl_start(p)
    \/ isSafeUrl_resolved(p)
    \/ isAllowed_fetched(p)
    \/ globalLimiter_admit(p)
    \/ hostLimiter_admit(p)
    \/ fetchHtml_response(p)
    \/ hostLimiter_retry(p)

SpecPages == InitPages /\ [][NextPages]_vars

(***************************************************************************)
(* SpecExtract: one site crawl whose pages all answer, with the documents  *)
(* of Docs.                                                                *)
(***************************************************************************)
ExtractWorld ==
  [ ConcWorld EXCEPT
      !.responses = [a \in 0..MAX_RETRIES |->
                       [kind : {"http"}, status : {200}, html : {TRUE}, body : ExtractBodies]] ]

InitExtract ==
  \E n \in 1..ExtractPages :
    Start([p \in {1} |-> NewTask(SiteExampleSe, [maxPages |-> n], FALSE)], ExtractWorld)

NextExtract ==
  \E p \in Tasks :
    \/ crawlSite_start(p)
    \/ crawlUrl_start(p)
    \/ isSafeUrl_resolved(p)
    \/ isAllowed_fetched(p)
    \/ globalLimiter_admit(p)
    \/ hostLimiter_admit(p)
    \/ fetchHtml_response(p)

SpecExtract == InitExtract /\ [][NextExtract]_vars

(***************************************************************************)
(* SpecMetrics: one site crawl with every answer of the origin, in which   *)
(* the increments of crawlCounter by fetchHtml are recorded.               *)
(***************************************************************************)
MetricsWorld ==
  [ FullWorld EXCEPT
      !.dns = { [ok |-> TRUE, addresses |-> <<PublicIp>>] },
      !.robots = { [kind |-> "ok", policy |-> Permissive] },
      !.metered = TRUE ]

InitMetrics ==
  \E n \in 1..MetricsPages :
    Start([p \in {1} |-> NewTask(SiteBSe, [maxPages |-> n], FALSE)], MetricsWorld)

NextMetrics ==
  \E p \in Tasks :
    \/ crawlSite_start(p)
    \/ crawlUrl_start(p)
    \/ isSafeUrl_resolved(p)
    \/ isAllowed_fetched(p)
    \/ globalLimiter_admit(p)
    \/ hostLimiter_admit(p)
    \/ fetchHtml_response(p)
    \/ fetchHtml_retry(p)
    \/ hostLimiter_retry(p)

SpecMetrics == InitMetrics /\ [][NextMetrics]_vars

(***************************************************************************)
(* SpecRoutes: one site crawl in which the answer of the DNS may differ    *)
(* from one lookup to the next and the origin may redirect.                *)
(***************************************************************************)
LoopbackIp == <<"1", "2", "7", ".", "0", ".", "0", ".", "1">>

\* the routes of a GET: the first address is one the DNS answers for the
\* host, a second one is the address of the target of a redirect
Routes ==
  LET resolved == UNION { { answer.addresses[i] : i \in 1..Len(answer.addresses) } :
                          answer \in DnsAnswers }
  IN  { << a >> : a \in resolved }
        \cup { << a, b >> : a \in resolved, b \in {PublicIp, LoopbackIp} }

RoutesWorld ==
  [ FullWorld EXCEPT
      !.robots = { [kind |-> "ok", policy |-> Permissive] },
      !.responses = [a \in 0..MAX_RETRIES |->
                       { [kind |-> "http", status |-> 200, html |-> TRUE, body |-> HtmlInfo],
                         [kind |-> "http", status |-> 500, html |-> TRUE, body |-> HtmlInfo] }],
      !.routes = Routes ]

InitRoutes ==
  \E n \in 1..RoutesPages :
    Start([p \in {1} |-> NewTask(SiteBSe, [maxPages |-> n], FALSE)], RoutesWorld)

NextRoutes ==
  \E p \in Tasks :
    \/ crawlSite_start(p)
    \/ crawlUrl_start(p)
    \/ isSafeUrl_resolved(p)
    \/ isAllowed_fetched(p)
    \/ globalLimiter_admit(p)
    \/ hostLimiter_admit(p)
    \/ fetchHtml_response(p)
    \/ fetchHtml_retry(p)
    \/ hostLimiter_retry(p)

SpecRoutes == InitRoutes /\ [][NextRoutes]_vars

(***************************************************************************)
(* SpecLive: LiveTasks site crawls of two hosts share LiveLimit slots of   *)
(* globalLimiter. Every callback that is ready runs (the event loop of the *)
(* process), and every fetch settles, with the page or with an error: each *)
(* task that can step does.                                                *)
(***************************************************************************)
LiveWorld ==
  [ ConcWorld EXCEPT
      !.globalConcurrency = LiveLimit,
      !.responses = [a \in 0..MAX_RETRIES |->
                       { [kind |-> "http", status |-> 200, html |-> TRUE, body |-> HtmlBare],
                         [kind |-> "AbortError", status |-> 0, html |-> FALSE, body |-> HtmlInfo] }] ]

\* the first k tasks crawl b.se, the others ax.com
InitLive ==
  \E k \in 0..LiveTasks :
    Start([p \in 1..LiveTasks |->
             NewTask(IF p <= k THEN SiteBSe ELSE SiteAxCom, [maxPages |-> 1], FALSE)],
          LiveWorld)

\* the next step of task p
stepOf(p) ==
  \/ crawlSite_start(p)
  \/ crawlUrl_start(p)
  \/ isSafeUrl_resolved(p)
  \/ isAllowed_fetched(p)
  \/ globalLimiter_admit(p)
  \/ hostLimiter_admit(p)
  \/ fetchHtml_response(p)
  \/ hostLimiter_retry(p)

NextLive == \E p \in Tasks : stepOf(p)

SpecLive ==
  /\ InitLive
  /\ [][NextLive]_vars
  /\ \A p \in 1..LiveTasks : WF_vars(stepOf(p))

(***************************************************************************)
(* SpecDnc: one site crawl of b.se while DNC_LIST is changed at run time   *)
(* by addToDnc and removeFromDnc.                                          *)
(***************************************************************************)
\* the domains addToDnc and removeFromDnc are called with
DncInputs == { <<"b", ".", "s", "e">>, <<"B", ".", "S", "E">> }

addToDnc(domain) ==
  /\ DNC_LIST' = DNC_LIST \cup { toLowerCase(domain) }
  /\ UNCHANGED << task, redisStore, robotsCache, hostLimiters, globalLimiter,
                  prev, world, now, sent, unit, job >>

removeFromDnc(domain) ==
  /\ DNC_LIST' = DNC_LIST \ { toLowerCase(domain) }
  /\ UNCHANGED << task, redisStore, robotsCache, hostLimiters, globalLimiter,
                  prev, world, now, sent, unit, job >>

InitDnc ==
  \E n \in 1..DncPages :
    Start([p \in {1} |-> NewTask(SiteBSe, [maxPages |-> n], FALSE)], ConcWorld)

NextDnc ==
  \/ \E p \in Tasks :
       \/ crawlSite_start(p)
       \/ crawlUrl_start(p)
       \/ isSafeUrl_resolved(p)
       \/ isAllowed_fetched(p)
       \/ globalLimiter_admit(p)
       \/ hostLimiter_admit(p)
       \/ fetchHtml_response(p)
       \/ hostLimiter_retry(p)
  \/ \E domain \in DncInputs :
       \/ addToDnc(domain)
       \/ removeFromDnc(domain)

SpecDnc == InitDnc /\ [][NextDnc]_vars

(***************************************************************************)
(* SpecRetry: one site crawl, with the clock; the origin answers a GET     *)
(* with the page or with 404, so that the jobs of the host limiter fail    *)
(* and are run again.                                                      *)
(***************************************************************************)
RetryWorld ==
  [ TimeWorld EXCEPT
      !.responses = [a \in 0..MAX_RETRIES |->
                       { [kind |-> "http", status |-> 200, html |-> TRUE, body |-> HtmlInfo],
                         [kind |-> "http", status |-> 404, html |-> TRUE, body |-> HtmlInfo] }] ]

InitRetry ==
  \E n \in 1..RetryPages :
    Start([p \in {1} |-> NewTask(SiteBSe, [maxPages |-> n], FALSE)], RetryWorld)

NextRetry ==
  \/ \E p \in Tasks :
       \/ crawlSite_start(p)
       \/ crawlUrl_start(p)
       \/ isSafeUrl_resolved(p)
       \/ isAllowed_fetched(p)
       \/ globalLimiter_admit(p)
       \/ hostLimiter_admit(p)
       \/ fetchHtml_response(p)
       \/ hostLimiter_retry(p)
  \/ tick

SpecRetry == InitRetry /\ [][NextRetry]_vars

(***************************************************************************)
(* SpecDelay: NTasks jobs crawl one host concurrently, with the clock; the *)
(* robots.txt of the host asks for a Crawl-delay of DelaySeconds, and the  *)
(* origin answers the first GET of a page with 500 or with the page.       *)
(***************************************************************************)
DelayWorld ==
  [ TimeWorld EXCEPT
      !.robots = { [kind |-> "ok",
                    policy |-> [disallow |-> {}, crawlDelay |-> DelaySeconds]] },
      !.responses = [a \in 0..MAX_RETRIES |->
                       IF a = 0
                         THEN { [kind |-> "http", status |-> 500, html |-> TRUE, body |-> HtmlInfo],
                                [kind |-> "http", status |-> 200, html |-> TRUE, body |-> HtmlInfo] }
                         ELSE { [kind |-> "http", status |-> 200, html |-> TRUE, body |-> HtmlInfo] }] ]

InitDelay ==
  \E n \in 1..DelayPages :
    Start([p \in 1..NTasks |-> NewTask(SiteBSe, [maxPages |-> n], FALSE)], DelayWorld)

NextDelay ==
  \/ \E p \in Tasks :
       \/ crawlSite_start(p)
       \/ crawlUrl_start(p)
       \/ isSafeUrl_resolved(p)
       \/ isAllowed_fetched(p)
       \/ crawlDelay_elapsed(p)
       \/ globalLimiter_admit(p)
       \/ hostLimiter_admit(p)
       \/ fetchHtml_response(p)
       \/ fetchHtml_retry(p)
  \/ tick

SpecDelay == InitDelay /\ [][NextDelay]_vars

(***************************************************************************)
(* SpecSlots: SlotTasks concurrent site crawls in a process started with   *)
(* GLOBAL_CONCURRENCY set to SlotLimit, so that crawls wait for a slot of   *)
(* globalLimiter.                                                          *)
(***************************************************************************)
SlotWorld == [ConcWorld EXCEPT !.globalConcurrency = SlotLimit]

InitSlots ==
  \E sites \in [1..SlotTasks -> {SiteBSe, SiteAxCom}] :
    Start([p \in 1..SlotTasks |-> NewTask(sites[p], [maxPages |-> 1], FALSE)], SlotWorld)

NextSlots ==
  \E p \in Tasks :
    \/ crawlSite_start(p)
    \/ crawlUrl_start(p)
    \/ isSafeUrl_resolved(p)
    \/ isAllowed_fetched(p)
    \/ globalLimiter_admit(p)
    \/ hostLimiter_admit(p)
    \/ fetchHtml_response(p)
    \/ hostLimiter_retry(p)

SpecSlots == InitSlots /\ [][NextSlots]_vars

(***************************************************************************)
(* SpecStore: b.se is crawled again and again, with a cache backend that   *)
(* works, that fails, or that is absent, with caching enabled or disabled  *)
(* (ENABLE_CACHE), and with cache entries that get overwritten by a text   *)
(* that is no JSON.                                                        *)
(***************************************************************************)
StoreWorld(fails, enabled) ==
  [ ConcWorld EXCEPT
      !.responses = [a \in 0..MAX_RETRIES |->
                       [kind : {"http"}, status : {200}, html : {TRUE},
                        body : {HtmlInfo, HtmlKontakt}]],
      !.redisFails = fails,
      !.enableCache = enabled ]

InitStore ==
  \E redis \in BOOLEAN, enabled \in BOOLEAN,
     fails \in {{FALSE}, {TRUE}, {FALSE, TRUE}}, n \in 1..StorePages :
    Start([p \in {1} |-> NewTask(SiteBSe, [maxPages |-> n], redis)],
          StoreWorld(fails, enabled))

NextStore ==
  \/ \E p \in Tasks :
       \/ crawlSite_start(p)
       \/ crawlUrl_start(p)
       \/ getCached_reply(p)
       \/ isSafeUrl_resolved(p)
       \/ isAllowed_fetched(p)
       \/ globalLimiter_admit(p)
       \/ hostLimiter_admit(p)
       \/ fetchHtml_response(p)
       \/ setCached_reply(p)
       \/ crawlSite_return(p)
  \/ redis_corrupt

SpecStore == InitStore /\ [][NextStore]_vars

(***************************************************************************)
(* SpecJob: one run of the worker's job handler (worker.mjs, lines 26-119) *)
(* on a list of up to MaxSites sites. The handler crawls its sites one     *)
(* after the other with crawlSite; job.updateProgress, job.log and         *)
(* logCrawl are calls to the queue and to the audit log, each of which     *)
(* resolves or rejects.                                                    *)
(***************************************************************************)
\* a site of job.data.sites without the field host
SiteNoHost == [scheme |-> "https:"]

\* the value undefined, where a host is expected
undefined == <<"u", "n", "d", "e", "f", "i", "n", "e", "d">>

\* site.host
hostOf(site) == IF "host" \in DOMAIN site THEN site.host ELSE undefined

\* the message of the TypeError of host.toLowerCase() with host undefined
\* (lib/doNotContact.mjs, line 42, called by crawlSite at line 171)
HostTypeError == "Cannot read properties of undefined (reading 'toLowerCase')"

\* a/b, a quotient of two numbers of the handler, uncomputed
Ratio(a, b) == [num |-> a, den |-> b]

\* the mutant of updateProgress that reports nothing
updateProgressMutantSilent(j, update) == j

\* job.updateProgress({...}), lines 41-47 and 91-97, added to the history
updateProgress(j, update) == [j EXCEPT !.progress = Append(@, update)]

\* the handler from the head of its loop (line 36) up to its next await:
\* the progress update of site i, or the final progress update
iterate(j) ==
  LET n == Len(j.sites) IN
  IF j.i < n
    THEN [ updateProgress(j, [ percentage |-> Ratio(j.i * 100, n),
                               current |-> hostOf(j.sites[j.i + 1]),
                               processed |-> j.i, total |-> n,
                               found |-> Len(j.allRecords) ])
             EXCEPT !.pc = "updateProgress" ]
    ELSE [ updateProgress(j, [ percentage |-> Ratio(100, 1),
                               current |-> "null",
                               processed |-> n, total |-> n,
                               found |-> Len(j.allRecords) ])
             EXCEPT !.pc = "finalProgress" ]

\* the mutant of catch that leaves the loop
catchMutantBreak(j, message) ==
  [ updateProgress([j EXCEPT !.errors = Append(@, [ host |-> hostOf(j.sites[j.i + 1]),
                                                    errors |-> << [reason |-> message] >> ]),
                             !.threw = Append(@, j.i),
                             !.i = Len(j.sites)],
                   [ percentage |-> Ratio(100, 1), current |-> "null",
                     processed |-> Len(j.sites), total |-> Len(j.sites),
                     found |-> Len(j.allRecords) ])
      EXCEPT !.pc = "finalProgress" ]

\* catch (err), lines 81-87, and the next turn of the loop
catch(j, message) ==
  iterate([j EXCEPT !.errors = Append(@, [ host |-> hostOf(j.sites[j.i + 1]),
                                           errors |-> << [reason |-> message] >> ]),
                    !.threw = Append(@, j.i),
                    !.i = @ + 1])

\* the result envelope, lines 105-114
envelope(j) ==
  [ records |-> j.allRecords,
    errors |-> j.errors,
    stats |-> [ totalSites |-> Len(j.sites),
                totalRecords |-> Len(j.allRecords),
                totalErrors |-> Len(j.errors),
                avgRecordsPerSite |-> Ratio(Len(j.allRecords), Len(j.sites)) ] ]

\* the history of the handler's calls, with ops added for site j.i + 1
step(j, ops) ==
  [j EXCEPT !.steps = @ \o [k \in 1..Len(ops) |-> [op |-> ops[k], i |-> j.i]]]

JobFrame == UNCHANGED << DNC_LIST, redisStore, robotsCache, hostLimiters, globalLimiter,
                         prev, world, now, sent, unit >>

\* the handler is called, lines 26-47: up to the first await
handler_start ==
  /\ job.pc = "queued"
  /\ job' = iterate([job EXCEPT !.activeJobs = @ + 1])
  /\ UNCHANGED task
  /\ JobFrame

\* await job.updateProgress(...) of line 41 settles; line 49
updateProgress_settled ==
  /\ job.pc = "updateProgress"
  /\ \E resolves \in BOOLEAN :
       job' = IF resolves THEN [job EXCEPT !.pc = "log"]
                    ELSE catch(job, "job.updateProgress rejected")
  /\ UNCHANGED task
  /\ JobFrame

\* await job.log(...) of line 49 settles; crawlSite is called, line 52
log_settled ==
  /\ job.pc = "log"
  /\ \E resolves \in BOOLEAN :
       LET site == job.sites[job.i + 1] IN
       IF ~resolves
         THEN job' = catch(job, "job.log rejected") /\ UNCHANGED task
       ELSE IF "host" \notin DOMAIN site
         THEN /\ job' = catch(step(job, << "crawlSite" >>), HostTypeError)
              /\ UNCHANGED task
       ELSE /\ job' = [step(job, << "crawlSite" >>) EXCEPT !.pc = "crawlSite"]
            /\ task' = [p \in {1} |-> NewTask(site, job.config, TRUE)]
  /\ JobFrame

\* the mutant of crawlSite_settled that does not await crawlSite
crawlSite_settledMutantNoAwait ==
  /\ job.pc = "crawlSite"
  /\ job' = [step(job, << "crawled", "converted", "logCrawl" >>) EXCEPT
               !.allRecords = @ \o toContactRecords(task[1].results),
               !.pc = "logCrawl"]
  /\ UNCHANGED task
  /\ JobFrame

\* await crawlSite(...) of line 52 settles; lines 55-64
crawlSite_settled ==
  /\ job.pc = "crawlSite"
  /\ task[1].pc = "done"
  /\ job' = [step(job, << "crawled", "converted", "logCrawl" >>) EXCEPT
               !.allRecords = @ \o toContactRecords(task[1].results),
               !.pc = "logCrawl"]
  /\ UNCHANGED task
  /\ JobFrame

\* await logCrawl(...) of line 59 settles; lines 67-80
logCrawl_settled ==
  /\ job.pc = "logCrawl"
  /\ \E resolves \in BOOLEAN :
       LET result == task[1].results
           j == step(job, << "logged" >>)
       IN
       job' = IF resolves
                THEN iterate([j EXCEPT
                       !.errors = IF Len(result.errors) > 0
                                    THEN Append(@, [ host |-> hostOf(job.sites[job.i + 1]),
                                                     errors |-> result.errors ])
                                    ELSE @,
                       !.i = @ + 1])
                ELSE catch(j, "logCrawl rejected")
  /\ UNCHANGED task
  /\ JobFrame

\* await job.updateProgress(...) of line 91 settles; lines 99-118: the
\* handler returns the envelope, or the rejection leaves it through finally
finalProgress_settled ==
  /\ job.pc = "finalProgress"
  /\ \E resolves \in BOOLEAN :
       job' = [job EXCEPT
                 !.pc = "settled",
                 !.activeJobs = @ - 1,
                 !.outcome = IF resolves THEN [kind |-> "resolved", value |-> envelope(job)]
                                   ELSE [kind |-> "rejected",
                                         reason |-> "job.updateProgress rejected"]]
  /\ UNCHANGED task
  /\ JobFrame

\* a site with contacts, a site of DNC_LIST (its result has an error) and a
\* site whose crawl throws
JobSites == {SiteExampleSe, SiteXCom, SiteNoHost}

\* the values of config.concurrency of a job (server.mjs accepts 1 to 8)
Concurrencies == {1, 3, 8}

\* the sequences of at most n elements of S
SeqUpTo(S, n) == UNION { [1..k -> S] : k \in 0..n }

JobWorld ==
  [ ConcWorld EXCEPT
      !.responses = [a \in 0..MAX_RETRIES |->
                       { [kind |-> "http", status |-> 200, html |-> TRUE, body |-> HtmlMailto],
                         [kind |-> "http", status |-> 404, html |-> TRUE, body |-> HtmlMailto] }],
      !.redisFails = {FALSE} ]

InitJob ==
  \E sites \in SeqUpTo(JobSites, MaxSites) :
    /\ unit = NoUnit
    /\ \E concurrency \in Concurrencies :
         job = [NoJob EXCEPT !.pc = "queued", !.sites = sites,
                             !.config = [maxPages |-> 1, concurrency |-> concurrency]]
    /\ task = EmptyMap
    /\ DNC_LIST = DNC_LIST_INIT
    /\ redisStore = EmptyMap
    /\ robotsCache = EmptyMap
    /\ hostLimiters = EmptyMap
    /\ globalLimiter = [running |-> 0, lastStart |-> -1]
    /\ prev = NoPrev
    /\ world = JobWorld
    /\ now = 0
    /\ sent = << >>

NextJob ==
  \/ handler_start
  \/ updateProgress_settled
  \/ log_settled
  \/ crawlSite_settled
  \/ logCrawl_settled
  \/ finalProgress_settled
  \/ \E p \in Tasks :
       \/ crawlSite_start(p)
       \/ crawlUrl_start(p)
       \/ getCached_reply(p)
       \/ isSafeUrl_resolved(p)
       \/ isAllowed_fetched(p)
       \/ globalLimiter_admit(p)
       \/ hostLimiter_admit(p)
       \/ fetchHtml_response(p)
       \/ hostLimiter_retry(p)
       \/ setCached_reply(p)

SpecJob == InitJob /\ [][NextJob]_vars

(***************************************************************************)
(* SpecUnit: the pure functions of the program, each called on an input    *)
(* drawn from a bounded set.                                               *)
(***************************************************************************)
\* words an HTML body may hold: the indicators, spelled as pages spell
\* them, and words that are no indicator
CaptchaWords ==
  { <<"r", "e", "c", "a", "p", "t", "c", "h", "a">>,
    <<"h", "c", "a", "p", "t", "c", "h", "a">>,
    <<"c", "l", "o", "u", "d", "f", "l", "a", "r", "e">>,
    <<"c", "f", "-", "b", "r", "o", "w", "s", "e", "r", "-", "v", "e", "r", "i", "f", "i", "c", "a", "t", "i", "o", "n">>,
    <<"j", "u", "s", "t", " ", "a", " ", "m", "o", "m", "e", "n", "t">>,
    <<"a", "t", "t", "e", "n", "t", "i", "o", "n", " ", "r", "e", "q", "u", "i", "r", "e", "d">>,
    <<"c", "h", "a", "l", "l", "e", "n", "g", "e", "-", "p", "l", "a", "t", "f", "o", "r", "m">>,
    <<"g", "-", "r", "e", "c", "a", "p", "t", "c", "h", "a">>,
    <<"g", "r", "e", "c", "a", "p", "t", "c", "h", "a">>,
    <<"r", "e", "C", "A", "P", "T", "C", "H", "A">>,
    <<"h", "C", "a", "p", "t", "c", "h", "a">>,
    <<"C", "l", "o", "u", "d", "f", "l", "a", "r", "e">>,
    <<"J", "u", "s", "t", " ", "a", " ", "m", "o", "m", "e", "n", "t", ".", ".", ".">>,
    <<"A", "t", "t", "e", "n", "t", "i", "o", "n", " ", "R", "e", "q", "u", "i", "r", "e", "d", "!">>,
    <<"W", "e", "l", "c", "o", "m", "e">>,
    <<"c", "a", "p", "t", "c", "h", "a">> }

\* HTML bodies: one word, or two words with a space between them
CaptchaBodies ==
  { [text |-> w] : w \in CaptchaWords }
    \cup { [text |-> v \o <<" ">> \o w] : v \in CaptchaWords, w \in CaptchaWords }

\* addresses: a local part, @ and a domain
UnitLocalparts ==
  { <<"i", "n", "f", "o">>,
    <<"K", "o", "n", "t", "a", "k", "t">>,
    <<"a">>,
    <<"a", "b">>,
    <<"a", "n", "n", "a">>,
    <<"n", "o", "r", "e", "p", "l", "y">>,
    <<"n", "o", "-", "r", "e", "p", "l", "y">>,
    <<"t", "e", "s", "t">> }
UnitDomains ==
  { <<"e", "x", "a", "m", "p", "l", "e", ".", "s", "e">>,
    <<"b", ".", "s", "e">>,
    <<"g", "m", "a", "i", "l", ".", "c", "o", "m">>,
    <<"m", "a", "i", "l", ".", "b", ".", "s", "e">> }
UnitEmails == { l \o <<"@">> \o d : l \in UnitLocalparts, d \in UnitDomains }

\* site hosts
UnitHosts ==
  { <<"e", "x", "a", "m", "p", "l", "e", ".", "s", "e">>,
    <<"b", ".", "s", "e">>,
    <<"w", "w", "w", ".", "b", ".", "s", "e">> }

EmailTypes == {"role", "personal", "generic", "unknown"}

\* what crawlSite returns for a site whose one or two pages answer
CrawlResults ==
  LET new(site) == [EmptyResults EXCEPT !.domain = site.host]
      crawled(site, bodies) ==
        { aggregate(new(site), Url(site, 1), pageResult(b)) : b \in bodies }
          \cup { aggregate(aggregate(new(site), Url(site, 1), pageResult(b)),
                           Url(site, 2), pageResult(c)) : b \in bodies, c \in bodies }
  IN  crawled(SiteExampleSe, MergeBodies) \cup crawled(SiteBSe, {HtmlInfo, HtmlKontakt})

\* a string that new URL() does not accept
NotAUrl == [scheme |-> "", host |-> << >>, path |-> "b.se"]

UnitUrls == {Url(SiteBSe, 1), Url(SiteBSe, 2), NotAUrl}

\* the robots cache before an isAllowed call: empty, or with the policy of
\* the origin requested within the last hour
RobotsCaches ==
  {EmptyMap} \cup
    { [o \in {origin(Url(SiteBSe, 1))} |-> robotsPolicy(reply)] : reply \in RobotsReplies }

\* the URLs isSafeUrl is called with: new URL(url).hostname is the dotted
\* form of an IPv4 literal and the bracketed form of an IPv6 literal
SafeUrlInputs ==
  { [scheme |-> "http:", host |-> <<"1", "2", "7", ".", "0", ".", "0", ".", "1">>, path |-> ""],
    [scheme |-> "http:", host |-> <<"1", "0", ".", "0", ".", "0", ".", "5">>, path |-> ""],
    [scheme |-> "http:", host |-> <<"1", "7", "2", ".", "1", "6", ".", "0", ".", "1">>, path |-> ""],
    [scheme |-> "http:", host |-> <<"1", "7", "2", ".", "3", "2", ".", "0", ".", "1">>, path |-> ""],
    [scheme |-> "http:", host |-> <<"1", "9", "2", ".", "1", "6", "8", ".", "1", ".", "1">>, path |-> ""],
    [scheme |-> "http:", host |-> <<"1", "6", "9", ".", "2", "5", "4", ".", "1", "6", "9", ".", "2", "5", "4">>, path |-> ""],
    [scheme |-> "http:", host |-> <<"0", ".", "0", ".", "0", ".", "0">>, path |-> ""],
    [scheme |-> "http:", host |-> <<"8", ".", "8", ".", "8", ".", "8">>, path |-> ""],
    [scheme |-> "http:", host |-> <<"[", ":", ":", "1", "]">>, path |-> ""],
    [scheme |-> "http:", host |-> <<"[", "f", "e", "8", "0", ":", ":", "1", "]">>, path |-> ""],
    [scheme |-> "http:", host |-> <<"[", "f", "d", "0", "0", ":", ":", "1", "]">>, path |-> ""],
    [scheme |-> "http:", host |-> <<"[", "2", "0", "0", "1", ":", "d", "b", "8", ":", ":", "1", "]">>, path |-> ""],
    [scheme |-> "http:", host |-> <<"b", ".", "s", "e">>, path |-> ""],
    [scheme |-> "ftp:", host |-> <<"b", ".", "s", "e">>, path |-> ""] }

UnitCalls ==
  { [fn |-> "handleCaptcha", in |-> html, done |-> FALSE, out |-> NoCall] :
      html \in CaptchaBodies }
    \cup { [fn |-> "classifyEmail",
            in |-> [email |-> e, siteHost |-> h, mx |-> mx],
            done |-> FALSE, out |-> NoCall] :
            e \in UnitEmails, h \in UnitHosts, mx \in MxOutcomes }
    \cup { [fn |-> "scoreEmail",
            in |-> [email |-> e, emailType |-> ty, siteHost |-> h],
            done |-> FALSE, out |-> NoCall] :
            e \in UnitEmails, ty \in EmailTypes, h \in UnitHosts }
    \cup { [fn |-> "toContactRecords", in |-> [crawlResult |-> r],
            done |-> FALSE, out |-> NoCall] : r \in CrawlResults }
    \cup { [fn |-> "isSafeUrl", in |-> [url |-> u, dns |-> answer],
            done |-> FALSE, out |-> NoCall] : u \in SafeUrlInputs, answer \in DnsAnswers }
    \cup { [fn |-> "isAllowed", in |-> [url |-> u, reply |-> reply],
            done |-> FALSE, out |-> NoCall] : u \in UnitUrls, reply \in RobotsReplies }

\* handleCaptcha(url, html)
handleCaptcha_call ==
  /\ unit.fn = "handleCaptcha"
  /\ ~unit.done
  /\ unit' = [unit EXCEPT !.done = TRUE, !.out = handleCaptcha(unit.in)]
  /\ UNCHANGED << task, DNC_LIST, redisStore, robotsCache, hostLimiters, globalLimiter,
                  prev, world, now, sent, job >>

\* await classifyEmail(email, siteHost)
classifyEmail_call ==
  /\ unit.fn = "classifyEmail"
  /\ ~unit.done
  /\ unit' = [unit EXCEPT !.done = TRUE,
                          !.out = classifyEmail(unit.in.email, unit.in.siteHost, unit.in.mx)]
  /\ UNCHANGED << task, DNC_LIST, redisStore, robotsCache, hostLimiters, globalLimiter,
                  prev, world, now, sent, job >>

\* scoreEmail(email, emailType, siteHost)
scoreEmail_call ==
  /\ unit.fn = "scoreEmail"
  /\ ~unit.done
  /\ unit' = [unit EXCEPT !.done = TRUE,
                          !.out = [score |-> scoreEmail(unit.in.email, unit.in.emailType,
                                                        unit.in.siteHost)]]
  /\ UNCHANGED << task, DNC_LIST, redisStore, robotsCache, hostLimiters, globalLimiter,
                  prev, world, now, sent, job >>

\* toContactRecords(crawlResult)
toContactRecords_call ==
  /\ unit.fn = "toContactRecords"
  /\ ~unit.done
  /\ unit' = [unit EXCEPT !.done = TRUE,
                          !.out = [records |-> toContactRecords(unit.in.crawlResult)]]
  /\ UNCHANGED << task, DNC_LIST, redisStore, robotsCache, hostLimiters, globalLimiter,
                  prev, world, now, sent, job >>

\* await isSafeUrl(url), lib/validators/url.mjs, lines 22-59, with what
\* dns.resolve4 answers
isSafeUrl_call ==
  /\ unit.fn = "isSafeUrl"
  /\ ~unit.done
  /\ unit' = [unit EXCEPT
                !.done = TRUE,
                !.out = [kind |-> "result",
                         safe |-> IF isSafeUrlSync(unit.in.url) = "unsafe" THEN FALSE
                                  ELSE isSafeUrlResolved(unit.in.dns)]]
  /\ UNCHANGED << task, DNC_LIST, redisStore, robotsCache, hostLimiters, globalLimiter,
                  prev, world, now, sent, job >>

\* await isAllowed(url), lib/robots.mjs, lines 13-51
isAllowed_call ==
  /\ unit.fn = "isAllowed"
  /\ ~unit.done
  /\ LET u == unit.in.url
         o == origin(u)
         policy == IF o \in DOMAIN robotsCache THEN robotsCache[o]
                                               ELSE robotsPolicy(unit.in.reply)
     IN  IF u = NotAUrl
           THEN \* new URL(url) throws: the catch of lines 47-50
                /\ unit' = [unit EXCEPT !.done = TRUE,
                                        !.out = [kind |-> "result", allowed |-> TRUE,
                                                 crawlDelay |-> 0]]
                /\ UNCHANGED robotsCache
           ELSE /\ unit' = [unit EXCEPT !.done = TRUE, !.out = robotsAnswer(policy, u)]
                /\ robotsCache' = Put(robotsCache, o, policy)
  /\ UNCHANGED << task, DNC_LIST, redisStore, hostLimiters, globalLimiter,
                  prev, world, now, sent, job >>

InitUnit ==
  /\ unit \in UnitCalls
  /\ job = NoJob
  /\ task = EmptyMap
  /\ DNC_LIST = DNC_LIST_INIT
  /\ redisStore = EmptyMap
  /\ robotsCache \in (IF unit.fn = "isAllowed" THEN RobotsCaches ELSE {EmptyMap})
  /\ hostLimiters = EmptyMap
  /\ globalLimiter = [running |-> 0, lastStart |-> -1]
  /\ prev = NoPrev
  /\ world = FullWorld
  /\ now = 0
  /\ sent = << >>

NextUnit ==
  \/ handleCaptcha_call
  \/ classifyEmail_call
  \/ scoreEmail_call
  \/ toContactRecords_call
  \/ isAllowed_call
  \/ isSafeUrl_call

SpecUnit == InitUnit /\ [][NextUnit]_vars

(***************************************************************************)
(* Properties                                                              *)
(***************************************************************************)
\* C1: when isSafeUrl answers safe:false for the URL of a crawlUrl call, that
\* call issues no page fetch (fetchHtml is not called) and returns null.
C1_UnsafeUrlNotFetched ==
  \A p \in Tasks :
    task[p].call.safe = "unsafe" =>
      /\ ~task[p].call.fetched
      /\ "fetch" \notin task[p].call.io
      /\ task[p].call.ret = NullResult

\* a call whose URL resolved to a blocked address has returned null
C1_Witness ==
  \E p \in Tasks :
    /\ task[p].call.safe = "unsafe"
    /\ "dns" \in task[p].call.io
    /\ task[p].call.ret = NullResult

\* C2: when isAllowed answers allowed:false for the URL of a crawlUrl call,
\* that call issues no page fetch and returns null.
C2_DisallowedUrlNotFetched ==
  \A p \in Tasks :
    task[p].call.allowed = "no" =>
      /\ ~task[p].call.fetched
      /\ "fetch" \notin task[p].call.io
      /\ task[p].call.ret = NullResult

\* a call whose URL robots.txt disallows has returned null
C2_Witness ==
  \E p \in Tasks :
    /\ task[p].call.allowed = "no"
    /\ "robots" \in task[p].call.io
    /\ task[p].call.ret = NullResult

\* C3, as stated: for every host, at most one HTTP request of the crawler
\* to the host (a page fetch or a robots.txt fetch) is in flight at any time,
\* whatever the interleaving of the concurrent site crawls.
C3_OneRequestInFlightPerHost ==
  \A p \in Tasks : Cardinality(inFlight(siteHost(task[p]))) <= 1

\* C4, as stated: for every host and every window of w ms, the number of
\* HTTP requests sent to the host within the window is at most
\* floor(w / PER_HOST_MIN_TIME) + 10. The shortest window that holds the
\* requests i..j of the log is sent[j].at - sent[i].at + 1 ms long.
C4_RequestsPerWindow ==
  \A i \in 1..Len(sent) : \A j \in i..Len(sent) :
    Cardinality({ k \in i..j : sent[k].host = sent[i].host })
      <= ((sent[j].at - sent[i].at + 1) \div PER_HOST_MIN_TIME) + 10

\* C5, as stated: a crawlSite call with maxPages = N (5 when absent) passes
\* at most N URLs to the fetcher.
C5_FetchCallsAtMostMaxPages ==
  \A p \in Tasks : task[p].fetchCalls <= maxPages(task[p].config)

\* C6, as stated: after a 4xx answer to a page GET, the crawlUrl call issues
\* no further GET for the URL.
C6_NoGetAfter4xx ==
  \A p \in Tasks : ~(task[p].call.saw4xx /\ task[p].pc = "fetching")

\* C7: fetchHtml retries only after a 5xx answer and at most MAX_RETRIES
\* times: a fetchHtml(url) call issues at most MAX_RETRIES + 1 GETs, the
\* answer to the last of which ends it.
C7_RetryOnly5xxBounded ==
  \A p \in Tasks :
    /\ task[p].attempt <= MAX_RETRIES
    /\ task[p].pc = "backoff" =>
         /\ task[p].lastStatus >= 500
         /\ task[p].attempt < MAX_RETRIES

\* fetchHtml has issued its GET number MAX_RETRIES + 1
C7_Witness ==
  \E p \in Tasks : task[p].pc = "fetching" /\ task[p].attempt = MAX_RETRIES

\* C8, as stated: of two successive crawlUrl(u) calls, the second returns a
\* result equal to the first's and performs no network I/O.
C8_SecondCallEqualNoIo ==
  \A p \in Tasks :
    LET c == task[p].call IN
    (c.before.ret.kind \in {"null", "result"} /\ c.ret.kind \in {"null", "result"})
      => (c.ret = c.before.ret /\ c.io = {})

\* C8, amended: when a crawlUrl(u) call returned a result the cache held (the
\* call stored it, or took it from the cache) and the next crawlUrl(u) call
\* finds the entry, the second call returns an equal result and performs no
\* network I/O.
C8_CacheHitRepeatsResult ==
  \A p \in Tasks :
    LET c == task[p].call IN
    (c.before.stored /\ c.hit) => (c.ret = c.before.ret /\ c.io = {})

\* the second of two successive calls was served from the cache
C8_Witness ==
  \E p \in Tasks :
    /\ task[p].call.before.stored
    /\ task[p].call.hit
    /\ task[p].call.ret.kind = "result"
    /\ task[p].call.ret.phones # << >>

\* the host is a DNC-list domain or a dot-suffixed subdomain of one
DncListed(host) ==
  \E d \in DNC_LIST :
    toLowerCase(host) = d \/ endsWith(toLowerCase(host), <<".">> \o d)

\* C9: for a site whose host is a DNC-list domain or a dot-suffixed subdomain
\* of one, crawlSite returns errors = [{reason: 'Domain on Do-Not-Contact
\* list'}] and empty emails, phones and sourcePages, and does no cache lookup,
\* safety check, robots.txt request or page fetch.
C9_DncSiteSkipped ==
  \A p \in Tasks :
    DncListed(task[p].site.host) =>
      /\ task[p].pc \in {"idle", "done"}
      /\ ~task[p].call.active
      /\ task[p].fetchCalls = 0
      /\ task[p].pc = "done" =>
           task[p].results = [EmptyResults EXCEPT !.domain = task[p].site.host,
                                                  !.errors = << [reason |-> DncReason] >>]

\* crawlSite has returned for a subdomain of a DNC domain
C9_Witness ==
  \E p \in Tasks : task[p].site = SiteSubXCom /\ task[p].pc = "done"

\* the reasons of the TOS-restricted domains the host contains
TosReasons(host) ==
  { RESTRICTIVE_TOS[i].reason :
      i \in { j \in 1..Len(RESTRICTIVE_TOS) :
                includes(toLowerCase(host), RESTRICTIVE_TOS[j].domain) } }

\* crawlSite, past its checks, recorded a TOS reason and crawls the pages
TosRecordedAndCrawled(t) ==
  /\ \E i \in 1..Len(t.results.errors) : t.results.errors[i].reason \in TosReasons(t.site.host)
  /\ t.idx >= 1
  /\ t.pc = "done" => (t.idx = pagesToCrawl(t.config) /\ t.call.idx = t.idx)

\* C10, as stated: for every host that contains a TOS-restricted domain,
\* crawlSite appends the TOS reason to errors and goes on to crawl the
\* candidate pages.
C10_TosSiteCrawled ==
  \A p \in Tasks :
    (TosReasons(task[p].site.host) # {} /\ task[p].pc # "idle")
      => TosRecordedAndCrawled(task[p])

\* C10, amended: for every host that contains a TOS-restricted domain and
\* is not matched by the DNC list, crawlSite appends the TOS reason to errors
\* and goes on to crawl the candidate pages.
C10_TosSiteNotDncCrawled ==
  \A p \in Tasks :
    (/\ TosReasons(task[p].site.host) # {}
     /\ ~DncListed(task[p].site.host)
     /\ task[p].pc # "idle")
      => TosRecordedAndCrawled(task[p])

\* crawlSite has crawled the pages of ax.com, which contains x.com
C10_Witness ==
  \E p \in Tasks :
    /\ task[p].site = SiteAxCom
    /\ task[p].pc = "done"
    /\ task[p].call.fetched
    /\ Len(task[p].results.errors) = 1

\* C11, as stated: handleCaptcha returns skip:true for every HTML body that
\* matches at least one of the nine case-insensitive patterns of hasCaptcha,
\* and skip:false for every body that matches none.
C11_SkipIffIndicator ==
  (unit.fn = "handleCaptcha" /\ unit.done) => (unit.out.skip <=> hasCaptcha(unit.in))

\* the reasons handleCaptcha gives: 'Captcha detected (<type>)'
CaptchaReasons == {"recaptcha", "hcaptcha", "cloudflare"}

\* the crawlUrl call of task p has returned after a captcha skip
captchaSkipped(p) ==
  /\ task[p].call.ret.kind = "null"
  /\ \E i \in 1..Len(task[p].call.counted) : task[p].call.counted[i] = "captcha"

\* C12, as stated: when a page is skipped for a captcha, the errors of the
\* site hold an entry with a captcha reason for that URL, and no record is
\* taken from that page.
C12_CaptchaSkipRecorded ==
  \A p \in Tasks :
    captchaSkipped(p) =>
      /\ \E i \in 1..Len(task[p].results.errors) :
           LET e == task[p].results.errors[i] IN
           /\ "url" \in DOMAIN e
           /\ e.url = Url(task[p].site, task[p].call.idx)
           /\ e.reason \in CaptchaReasons
      /\ Url(task[p].site, task[p].call.idx) \notin task[p].results.sourcePages

\* the crawlUrl call of task p has failed: its URL was unsafe, or the fetch
\* ended in an error (network error, timeout, 4xx, 5xx, non-HTML)
failed(p) ==
  /\ task[p].call.ret.kind # "pending"
  /\ task[p].call.safe = "unsafe" \/ task[p].call.caught

\* C13, as stated: every per-URL failure makes crawlUrl return null and is
\* recorded as an entry on the errors list of the site; a site submitted as
\* http://127.0.0.1/ ends with a site-level error.
C13_FailureRecorded ==
  \A p \in Tasks :
    /\ failed(p) =>
         /\ task[p].call.ret.kind = "null"
         /\ \E i \in 1..Len(task[p].results.errors) :
              LET e == task[p].results.errors[i] IN
              "url" \in DOMAIN e /\ e.url = Url(task[p].site, task[p].call.idx)
    /\ (task[p].site = SiteLoopback /\ task[p].pc = "done") =>
         task[p].results.errors # << >>

\* in this step isAllowed answered the crawlUrl call of task p: disallowed
robotsDisallows(p) ==
  /\ task'[p].call.allowed = "no"
  /\ task[p].call.allowed # "no" \/ task[p].call.idx # task'[p].call.idx

\* C14: when robots.txt disallows a candidate URL, crawlUrl increments
\* crawl_requests_total{status='robots-blocked', host} exactly once for that
\* URL, nothing is added to the errors of the site, and nothing of the URL
\* reaches the site result.
C14_RobotsBlockedCountedOnce ==
  [][\A p \in Tasks :
       /\ robotsDisallows(p) =>
            /\ task[p].call.counted = << >>
            /\ task'[p].call.counted = << "robots-blocked" >>
            /\ task'[p].call.ret = NullResult
            /\ task'[p].results = task[p].results
       /\ (task[p].call.allowed = "no" /\ task'[p].call.idx = task[p].call.idx) =>
            task'[p].call.counted = task[p].call.counted]_vars

\* a disallowed URL was counted and the crawl of the site has gone on to its end
C14_Witness ==
  \E p \in Tasks :
    /\ task[p].call.allowed = "no"
    /\ task[p].call.counted = << "robots-blocked" >>
    /\ task[p].pc = "done"
    /\ task[p].results.errors = << >>
    /\ Url(task[p].site, task[p].call.idx) \notin task[p].results.sourcePages

SocialFields == {"linkedin", "facebook", "x"}

\* C15, as stated: during a site crawl a social field is written only while
\* it is empty; once it holds a value, no later page changes it.
C15_FirstSocialWins ==
  [][\A p \in Tasks : \A f \in SocialFields :
       (task[p].pc # "idle" /\ task[p].results.socials[f] # Null) =>
         task'[p].results.socials[f] = task[p].results.socials[f]]_vars

\* the emails map has no duplicate key, every entry has a source, and
\* phones has no duplicate
deduplicated(results) ==
  /\ \A i, j \in 1..Len(results.emails) :
       results.emails[i].email = results.emails[j].email => i = j
  /\ \A i \in 1..Len(results.emails) : results.emails[i].sources # << >>
  /\ \A i, j \in 1..Len(results.phones) :
       results.phones[i] = results.phones[j] => i = j

\* every entry of old is in new with the same emailType and confidence, and
\* its sources have only grown at the end
onlyAppended(old, new) ==
  /\ Len(old.emails) <= Len(new.emails)
  /\ \A i \in 1..Len(old.emails) :
       /\ new.emails[i].email = old.emails[i].email
       /\ new.emails[i].emailType = old.emails[i].emailType
       /\ new.emails[i].confidence = old.emails[i].confidence
       /\ Len(old.emails[i].sources) <= Len(new.emails[i].sources)
       /\ SubSeq(new.emails[i].sources, 1, Len(old.emails[i].sources)) = old.emails[i].sources

\* C16: in every state of a site crawl the emails map has no duplicate key,
\* every entry's sources list is non-empty and phones has no duplicates; the
\* emailType and the confidence of an email are those of its first sighting,
\* later sightings only append to its sources.
C16_DedupAndFirstSighting ==
  [][\A p \in Tasks :
       /\ deduplicated(task'[p].results)
       /\ task[p].pc # "idle" => onlyAppended(task[p].results, task'[p].results)]_vars

\* an email was sighted on two pages, next to another email and two phones
C16_Witness ==
  \E p \in Tasks :
    /\ Len(task[p].results.emails) >= 2
    /\ Len(task[p].results.phones) >= 2
    /\ \E i \in 1..Len(task[p].results.emails) :
         /\ Len(task[p].results.emails[i].sources) >= 2
         /\ task[p].results.emails[i].sources[1] # task[p].results.emails[i].sources[2]

\* the number of social fields that hold a value
known(socials) == Cardinality({ f \in SocialFields : socials[f] # Null })

\* C17: merging the result of a page into the site result never decreases
\* the number of known emails, of known phones, or of non-empty social fields.
C17_MonotonicDiscovery ==
  [][\A p \in Tasks :
       task[p].pc # "idle" =>
         /\ Len(task'[p].results.emails) >= Len(task[p].results.emails)
         /\ Len(task'[p].results.phones) >= Len(task[p].results.phones)
         /\ known(task'[p].results.socials) >= known(task[p].results.socials)]_vars

\* a page without contacts was merged into a site result that holds an
\* email, a phone and a social field
C17_Witness ==
  \E p \in Tasks :
    /\ task[p].call.ret.kind = "result"
    /\ task[p].call.ret.emails = << >>
    /\ task[p].call.ret.phones = << >>
    /\ known(task[p].call.ret.socials) = 0
    /\ Url(task[p].site, task[p].call.idx) \in task[p].results.sourcePages
    /\ Len(task[p].results.emails) > 0
    /\ Len(task[p].results.phones) > 0
    /\ known(task[p].results.socials) > 0

\* C18: for every email, type and site host scoreEmail returns an integer in
\* [0,100], and every record toContactRecords emits has the confidence
\* score/100 (here in hundredths) of its email, which lies in [0,1].
C18_ScoreBounds ==
  /\ (unit.fn = "scoreEmail" /\ unit.done) => unit.out.score \in 0..100
  /\ (unit.fn = "toContactRecords" /\ unit.done) =>
       \A k \in 1..Len(unit.out.records) :
         LET record == unit.out.records[k] IN
         /\ record.confidence = scoreEmail(record.email, record.emailType, record.domain)
         /\ record.confidence \in 0..100

\* scoreEmail was called for an email whose sum lies above 100
C18_Witness ==
  /\ unit.fn = "scoreEmail"
  /\ unit.done
  /\ rawScore(unit.in.email, unit.in.emailType, unit.in.siteHost) > 100
  /\ unit.out.score = 100

info_example_se == <<"i", "n", "f", "o", "@", "e", "x", "a", "m", "p", "l", "e", ".", "s", "e">>

\* C19, as stated: for info@example.se, found through a mailto anchor on the
\* site example.se, the emitted record has emailType role, discoveryPath
\* mailto and confidence 0.90 (90 hundredths).
C19_InfoExampleSeScores90 ==
  \A p \in Tasks :
    (task[p].pc = "done" /\ task[p].site = SiteExampleSe) =>
      LET records == toContactRecords(task[p].results) IN
      \A k \in 1..Len(records) :
        (records[k].email = info_example_se /\ records[k].rawEvidence[1] = "mailto") =>
          /\ records[k].emailType = "role"
          /\ records[k].discoveryPath = "mailto"
          /\ records[k].confidence = 90

\* C20: classifyEmail follows the precedence: a role localpart gives role
\* whatever the domain; otherwise a webmail domain gives personal; otherwise
\* a company-domain match gives generic when the localpart is 1-2 letters or
\* starts with no-reply/noreply, and role otherwise; otherwise unknown. The
\* MX check never changes the emailType.
C20_ClassifyPrecedence ==
  (unit.fn = "classifyEmail" /\ unit.done) =>
    LET email == unit.in.email
        localpart == localpartOf(email)
        role == testRoleLocalpart(localpart)
        webmail == testGenericDomain(email)
        company == domainMatches(domainOf(email), unit.in.siteHost)
        short == testShortOrNoReply(localpart)
        emailType == unit.out.emailType
    IN  /\ role => emailType = "role"
        /\ (~role /\ webmail) => emailType = "personal"
        /\ (~role /\ ~webmail /\ company /\ short) => emailType = "generic"
        /\ (~role /\ ~webmail /\ company /\ ~short) => emailType = "role"
        /\ (~role /\ ~webmail /\ ~company) => emailType = "unknown"
        /\ emailType = classifyEmail(email, unit.in.siteHost, NoMx).emailType

\* a role localpart at a webmail domain was classified, with a failed MX check
C20_Witness ==
  /\ unit.fn = "classifyEmail"
  /\ unit.done
  /\ testRoleLocalpart(localpartOf(unit.in.email))
  /\ testGenericDomain(unit.in.email)
  /\ unit.in.mx = [enabled |-> TRUE, answer |-> "throw"]
  /\ unit.out = [emailType |-> "role", mxValid |-> FALSE]

\* the email passed format validation and its TLD is in the allowlist
validWithAllowedTld(email) ==
  /\ validateEmailFormat(email)
  /\ tldOf(domainOf(email)) \in ALLOWED_TLDS

\* C21, as stated: a ContactRecord is emitted for an email found on a
\* successfully crawled page if and only if the email passed format
\* validation and has a TLD in {se, com, info, nu, org, net}.
C21_RecordIffValidAllowedTld ==
  \A p \in Tasks :
    (task[p].call.ret.kind = "result" /\ ~task[p].call.hit) =>
      LET records == toContactRecords(task[p].results) IN
      \A i \in 1..Len(task[p].call.found) :
        LET email == toLowerCase(trim(task[p].call.found[i].email)) IN
        (\E k \in 1..Len(records) : records[k].email = email)
          <=> validWithAllowedTld(email)

\* C21, amended: a ContactRecord is emitted for an email found on a
\* successfully crawled page if and only if the email, lower-cased and
\* trimmed, does not match the reject pattern of the cleaning pipeline,
\* passed format validation and has a TLD in {se, com, info, nu, org, net}.
C21_RecordIffCleaned ==
  \A p \in Tasks :
    (task[p].call.ret.kind = "result" /\ ~task[p].call.hit) =>
      LET records == toContactRecords(task[p].results) IN
      \A i \in 1..Len(task[p].call.found) :
        LET email == toLowerCase(trim(task[p].call.found[i].email)) IN
        (\E k \in 1..Len(records) : records[k].email = email)
          <=> (~testBadEmail(email) /\ validWithAllowedTld(email))

\* a page held a rejected address, a malformed one and one with another TLD,
\* next to records of an earlier page
C21_Witness ==
  \E p \in Tasks :
    /\ task[p].call.ret.kind = "result"
    /\ ~task[p].call.hit
    /\ Len(task[p].results.emails) > 0
    /\ \E i \in 1..Len(task[p].call.found) :
         LET email == toLowerCase(trim(task[p].call.found[i].email)) IN
         testBadEmail(email) /\ validWithAllowedTld(email)
    /\ \E i \in 1..Len(task[p].call.found) :
         ~validateEmailFormat(task[p].call.found[i].email)
    /\ \E i \in 1..Len(task[p].call.found) :
         /\ validateEmailFormat(task[p].call.found[i].email)
         /\ tldOf(domainOf(task[p].call.found[i].email)) \notin ALLOWED_TLDS


(***************************************************************************)
(* The job handler                                                         *)
(***************************************************************************)
\* C22, as stated: the job handler always resolves with a result envelope
\* {records, errors, stats} and never rejects, whatever fails during site
\* crawls, progress updates or audit logging.
C22_HandlerAlwaysResolves ==
  job.pc = "settled" =>
    /\ job.outcome.kind = "resolved"
    /\ DOMAIN job.outcome.value = {"records", "errors", "stats"}

\* in this step the iteration of site job.i threw and was caught
siteThrew == Len(job'.threw) = Len(job.threw) + 1

\* the handler has begun the iteration of each of its first k sites
begun(j, k) ==
  \A m \in 0..(k - 1) :
    \E u \in 1..Len(j.progress) :
      /\ j.progress[u].processed = m
      /\ j.progress[u].current = hostOf(j.sites[m + 1])

\* C23: if processing one site throws, the worker appends exactly one
\* {host, errors: [{reason}]} entry for that site to the errors of the job,
\* keeps the records of the other sites, and goes on to the next site; a run
\* that reaches the final progress update has begun every site, and the
\* envelope of a run that resolves carries the records and errors collected.
C23_ThrowIsOneEntryAndLoopGoesOn ==
  [][/\ siteThrew =>
          /\ Len(job'.errors) = Len(job.errors) + 1
          /\ SubSeq(job'.errors, 1, Len(job.errors)) = job.errors
          /\ LET e == job'.errors[Len(job'.errors)] IN
             /\ DOMAIN e = {"host", "errors"}
             /\ e.host = hostOf(job.sites[job.i + 1])
             /\ Len(e.errors) = 1
             /\ DOMAIN e.errors[1] = {"reason"}
          /\ job'.allRecords = job.allRecords
          /\ job'.i = job.i + 1
          /\ job'.pc = IF job'.i < Len(job.sites) THEN "updateProgress"
                                                  ELSE "finalProgress"
     /\ job'.pc = "finalProgress" => begun(job', Len(job.sites))
     /\ job'.outcome.kind = "resolved" =>
          /\ job'.outcome.value.records = job.allRecords
          /\ job'.outcome.value.errors = job.errors
          /\ Len(job.errors) >= Len(job.threw)]_vars

\* the second of three sites threw, and the records of the first and of the
\* third site are in the envelope
C23_Witness ==
  /\ job.outcome.kind = "resolved"
  /\ job.sites = <<SiteExampleSe, SiteNoHost, SiteExampleSe>>
  /\ job.threw = <<1>>
  /\ Len(job.outcome.value.errors) = 1
  /\ Len(job.outcome.value.records) = 2

\* C24: within one run of a job every progress update has a percentage in
\* [0, 100] and processed <= total, the percentage never decreases from one
\* update to the next, every site the handler has begun has an update of its
\* own, and the last update of a run that returns has percentage 100,
\* processed = total and current = null.
C24_ProgressUpdates ==
  LET P == job.progress
      n == Len(job.sites)
  IN  /\ \A u \in 1..Len(P) :
           /\ P[u].percentage.den > 0
           /\ 0 <= P[u].percentage.num
           /\ P[u].percentage.num <= 100 * P[u].percentage.den
           /\ P[u].processed <= P[u].total
           /\ P[u].total = n
      /\ \A u \in 1..(Len(P) - 1) :
           P[u].percentage.num * P[u + 1].percentage.den
             <= P[u + 1].percentage.num * P[u].percentage.den
      /\ job.pc \in {"updateProgress", "log", "crawlSite", "logCrawl"} => begun(job, job.i + 1)
      /\ job.pc \in {"finalProgress", "settled"} => begun(job, n)
      /\ job.outcome.kind = "resolved" =>
           /\ Len(P) > 0
           /\ P[Len(P)].percentage.num = 100 * P[Len(P)].percentage.den
           /\ P[Len(P)].processed = P[Len(P)].total
           /\ P[Len(P)].current = "null"

\* a run on three sites has returned after four progress updates
C24_Witness ==
  /\ job.outcome.kind = "resolved"
  /\ Len(job.sites) = 3
  /\ Len(job.progress) = 4
  /\ job.progress[2].percentage = Ratio(100, 3)

(***************************************************************************)
(* The robots policy cache                                                 *)
(***************************************************************************)
\* the tasks whose isAllowed call awaits the answer to its request for the
\* robots.txt of origin o
fetchingRobots(o) ==
  { p \in Tasks : task[p].pc = "robots_fetch" /\ origin(url(task[p])) = o }

isAllowedFailed ==
  /\ unit.fn = "isAllowed"
  /\ ~unit.done
  /\ unit'.done
  /\ \/ unit.in.url = NotAUrl
     \/ /\ origin(unit.in.url) \notin DOMAIN robotsCache
        /\ unit.in.reply.kind \in {"status", "throw"}

\* C26: isAllowed never fails: it returns a result whatever its request ends
\* in, and when robots.txt is missing, is answered with a status other than
\* 2xx, is not answered within 5 s, or an exception occurs, the result is
\* allowed: true with crawlDelay 0.
C26_IsAllowedNeverFails ==
  [][/\ (unit.fn = "isAllowed" /\ unit'.done) =>
          /\ unit'.out.kind = "result"
          /\ unit'.out.allowed \in BOOLEAN
     /\ isAllowedFailed =>
          /\ unit'.out.allowed = TRUE
          /\ unit'.out.crawlDelay = 0]_vars

\* an isAllowed call whose request for robots.txt failed has returned, and
\* the permissive policy is in the cache
C26_Witness ==
  /\ unit.fn = "isAllowed"
  /\ unit.done
  /\ unit.in.reply.kind = "throw"
  /\ unit.in.url = Url(SiteBSe, 2)
  /\ robotsCache = [o \in {origin(unit.in.url)} |-> Permissive]
  /\ unit.out.allowed

(***************************************************************************)
(* The response cache                                                      *)
(***************************************************************************)
\* the cache backend answers every command with an error
backendDown == world.redisFails = {TRUE}

\* C27: getCached and setCached never throw. When the backend fails or the
\* stored value cannot be decoded, getCached yields a miss and crawlUrl
\* carries on as for an uncached URL; when the backend fails, setCached
\* skips the write and crawlUrl returns its result; without a backend or
\* with caching disabled crawlUrl never awaits the backend and the store is
\* left alone.
C27_CacheFailuresSwallowed ==
  [][\A p \in Tasks :
       LET t == task[p]
           u == url(t)
       IN  /\ (t.pc = "cache_get" /\ task'[p] # t) =>
                /\ ~task'[p].call.caught
                /\ (\/ backendDown
                    \/ u \notin DOMAIN redisStore
                    \/ redisStore[u] = Undecodable) =>
                     /\ task'[p] = afterCacheMiss(t)
                     /\ ~task'[p].call.hit
                     /\ task'[p].pc = "dns"
           /\ (t.pc = "cache_set" /\ task'[p] # t) =>
                /\ ~task'[p].call.caught
                /\ task'[p].call.ret = t.result
                /\ backendDown => redisStore' = redisStore /\ ~task'[p].call.stored
           /\ ~cacheOn(t) =>
                /\ t.pc \notin {"cache_get", "cache_set"}
                /\ ~t.call.lookup
                /\ redisStore' = redisStore]_vars

\* with a backend that fails, a crawlUrl call has looked the URL up, fetched
\* the page and returned its result, and nothing is stored
C27_Witness ==
  \E p \in Tasks :
    /\ backendDown
    /\ cacheOn(task[p])
    /\ task[p].call.lookup
    /\ task[p].call.fetched
    /\ task[p].call.ret.kind = "result"
    /\ ~task[p].call.hit
    /\ redisStore = EmptyMap

(***************************************************************************)
(* The two limiters                                                        *)
(***************************************************************************)
\* the tasks that hold a slot of globalLimiter, and of the limiter of host h
globalSlots == { p \in Tasks : holdsGlobal(task[p].pc) }
hostSlots(h) == { p \in Tasks : siteHost(task[p]) = h /\ holdsHost(task[p].pc) }

\* C28: at any time at most GLOBAL_CONCURRENCY tasks hold a global slot; a
\* page fetch runs only while its task holds a global slot and the slot of
\* its host; the host slot is acquired after the global slot, by a task that
\* holds the global slot already, and is not held beyond it.
C28_NestedSlots ==
  [][/\ Cardinality(globalSlots) <= world.globalConcurrency
     /\ globalLimiter.running = Cardinality(globalSlots)
     /\ \A p \in Tasks :
          LET pc == task[p].pc
              pc2 == task'[p].pc
          IN  /\ pc = "fetching" => holdsGlobal(pc) /\ holdsHost(pc)
              /\ pc = "fetching" =>
                   /\ p \in globalSlots
                   /\ hostLimiters[siteHost(task[p])].running >= 1
              /\ holdsHost(pc) => holdsGlobal(pc)
              /\ (holdsHost(pc2) /\ ~holdsHost(pc)) => holdsGlobal(pc)
              /\ (holdsGlobal(pc2) /\ ~holdsGlobal(pc)) => ~holdsHost(pc2)
              /\ (holdsGlobal(pc) /\ ~holdsGlobal(pc2)) => ~holdsHost(pc2)]_vars

\* one task fetches its page while the other waits for the global slot
C28_Witness ==
  \E p, q \in Tasks :
    /\ task[p].pc = "fetching"
    /\ task[q].pc = "wait_global"
    /\ siteHost(task[p]) # siteHost(task[q])
    /\ globalLimiter.running = world.globalConcurrency

(***************************************************************************)
(* The Safe-URL gate                                                       *)
(***************************************************************************)
\* the number a string of decimal digits denotes
DigitValue ==
  [ c \in Digits |->
      CASE c = "0" -> 0 [] c = "1" -> 1 [] c = "2" -> 2 [] c = "3" -> 3 [] c = "4" -> 4
        [] c = "5" -> 5 [] c = "6" -> 6 [] c = "7" -> 7 [] c = "8" -> 8 [] c = "9" -> 9 ]

RECURSIVE decimal(_)
decimal(s) ==
  IF s = << >> THEN 0
  ELSE 10 * decimal(SubSeq(s, 1, Len(s) - 1)) + DigitValue[s[Len(s)]]

\* the IPv4 address a (dotted decimal) is in 127/8, 10/8, 172.16/12,
\* 192.168/16, 169.254/16 or 0/8
blockedV4(a) ==
  LET o == split(a, ".")
      o1 == decimal(o[1])
      o2 == decimal(o[2])
  IN  \/ o1 \in {127, 10, 0}
      \/ o1 = 172 /\ o2 \in 16..31
      \/ o1 = 192 /\ o2 = 168
      \/ o1 = 169 /\ o2 = 254

\* the IPv6 address a is ::1 or in fe80::/10 or fc00::/7
blockedV6(a) ==
  \/ a = <<":", ":", "1">>
  \/ \E x \in {"8", "9", "a", "b"} : startsWith(a, <<"f", "e", x>>) /\ a[5] = ":"
  \/ \E x \in {"c", "d"} : startsWith(a, <<"f", x>>) /\ a[5] = ":"

\* the host of a URL is an IP literal of the blocklist
blockedLiteral(host) ==
  IF host[1] = "[" THEN blockedV6(SubSeq(host, 2, Len(host) - 1))
  ELSE isIP(host) /\ blockedV4(host)

C29_BlockedV4IsUnsafe ==
  (/\ unit.fn = "isSafeUrl"
   /\ unit.done
   /\ unit.in.url.scheme \in {"http:", "https:"}
   /\ \/ isIP(hostname(unit.in.url)) /\ blockedV4(hostname(unit.in.url))
      \/ /\ unit.in.dns.ok
         /\ \E i \in 1..Len(unit.in.dns.addresses) : blockedV4(unit.in.dns.addresses[i]))
    => ~unit.out.safe

(***************************************************************************)
(* Crawl-delay                                                             *)
(***************************************************************************)
\* the requests i < j of the log are consecutive page requests to one host
consecutivePages(i, j) ==
  /\ i < j
  /\ sent[i].page /\ sent[j].page
  /\ sent[i].host = sent[j].host
  /\ \A k \in (i + 1)..(j - 1) : ~(sent[k].page /\ sent[k].host = sent[i].host)

pagesDue(config) ==
  LET n == IF config.maxPages = 0 THEN 5 ELSE config.maxPages
  IN  IF n < 7 THEN n ELSE 7

\* C31: for a site not on the DNC list crawlSite attempts exactly the first
\* min(maxPages, 7) URLs of [root, /kontakt, /kontakta-oss, /om, /om-oss,
\* /about, /contact], in that order and one at a time, and every one of them
\* whatever the outcome of the earlier ones; with maxPages = 1 only the root
\* URL is tried.
C31_PagesInOrderOneAtATime ==
  [][\A p \in Tasks :
       LET t == task[p]
           t2 == task'[p]
           n == pagesDue(t.config)
       IN  ~isDncDomain(DNC_LIST, t.site.host) =>
             \* the position in the list moves one step at a time, to a new
             \* politeness sleep, and only when no crawlUrl call is pending
             /\ t2.idx \in {t.idx, t.idx + 1}
             /\ t2.idx = t.idx + 1 =>
                  /\ t2.pc = "delay"
                  /\ t2.idx <= n
                  /\ t.pc = "idle" \/ (t.call.idx = t.idx /\ t2.call.ret.kind \in {"null", "result"})
             \* a crawlUrl call is for the URL of the position, next in order
             /\ (t.pc = "delay" /\ t2.pc # "delay") =>
                  /\ t2.call.idx = t.idx
                  /\ t2.call.idx = (IF t.call.active THEN t.call.idx ELSE 0) + 1
                  /\ url(t2) = [scheme |-> t.site.scheme, host |-> t.site.host,
                                path |-> <<"", "/kontakt", "/kontakta-oss", "/om", "/om-oss",
                                           "/about", "/contact">>[t2.call.idx]]
                  /\ t.call.ret.kind # "pending"
             \* crawlSite returns after the last of the n calls has returned
             /\ (t2.pc = "done" /\ t.pc # "done") =>
                  /\ t2.idx = n
                  /\ t2.call.idx = n
                  /\ t2.call.ret.kind \in {"null", "result"}]_vars

\* a crawl with maxPages above 7 has tried the seven pages, the first of
\* which gave nothing
C31_Witness ==
  \E p \in Tasks :
    /\ task[p].pc = "done"
    /\ task[p].config.maxPages = PagesOver
    /\ task[p].call.idx = 7
    /\ Url(task[p].site, 1) \notin task[p].results.sourcePages
    /\ Url(task[p].site, 7) \in task[p].results.sourcePages

(***************************************************************************)
(* The retries of the host limiter                                         *)
(***************************************************************************)
\* in this step the function of the host limiter's job of task p failed
jobFailed(p) ==
  /\ task[p].pc = "fetching"
  /\ task'[p].pc = "limiter_retry" \/ task'[p].call.caught

\* C32: a task scheduled on a per-host limiter whose function fails is run
\* again at most twice (at most 3 executions in all), each time 2 s after
\* the failure; after the last failure the error propagates to the caller
\* of withRateLimit (crawlUrl, whose catch returns null).
C32_LimiterRetriesTwice ==
  [][\A p \in Tasks :
       LET t == task[p]
           t2 == task'[p]
       IN  /\ t.retryCount <= 2
           /\ jobFailed(p) =>
                IF t.retryCount < 2
                  THEN /\ t2.pc = "limiter_retry"
                       /\ t2.retryCount = t.retryCount + 1
                       /\ t2.wake = now + 2000
                       /\ ~t2.call.caught
                  ELSE /\ t2.call.caught
                       /\ t2.call.ret.kind = "null"
                       /\ ~holdsHost(t2.pc) /\ ~holdsGlobal(t2.pc)
           /\ (t.pc = "limiter_retry" /\ t2 # t) =>
                /\ t2.pc = "fetching"
                /\ now = t.wake
                /\ t2.retryCount = t.retryCount
                /\ t2.call.idx = t.call.idx]_vars

\* the function of a job has failed for the third time and crawlUrl has
\* returned null
C32_Witness ==
  \E p \in Tasks :
    /\ task[p].call.caught
    /\ task[p].call.ret.kind = "null"
    /\ task[p].fetchCalls = 3
    /\ task[p].call.idx = 1

(***************************************************************************)
(* DNC_LIST changed while a site is crawled                                *)
(***************************************************************************)
\* in this step the GET of a page of task p's site is sent
pageFetchIssued(p) ==
  /\ task[p].pc # "fetching"
  /\ task'[p].pc = "fetching"

\* C33: no page fetch is issued for a host while the host is on DNC_LIST,
\* whatever the interleaving of addToDnc / removeFromDnc with the site
\* crawl, also when addToDnc adds the host while its crawl is under way.
C33_NoFetchWhileOnDnc ==
  [][\A p \in Tasks :
       pageFetchIssued(p) => ~isDncDomain(DNC_LIST, task[p].site.host)]_vars

(***************************************************************************)
(* The discovery path of a record                                          *)
(***************************************************************************)
\* the source of the first entry extractContacts found for email on the
\* page of the call (a sequence of at most one element)
RECURSIVE firstSurfaced(_, _, _)
firstSurfaced(found, email, i) ==
  IF i > Len(found) THEN << >>
  ELSE IF toLowerCase(trim(found[i].email)) = email THEN << found[i].source >>
  ELSE firstSurfaced(found, email, i + 1)

\* in every step, the discovery path of an entry that was in results.emails
\* stays, and that of a new entry is the branch that surfaced the email
\* first on the page just merged, one of branches
pathIsFirstBranch(branches) ==
  \A p \in Tasks :
    LET old == task[p].results.emails
        new == task'[p].results.emails
    IN  \A k \in 1..Len(new) :
          /\ toContactRecords(task'[p].results)[k].discoveryPath = new[k].discoveryPath
          /\ IF k <= Len(old)
               THEN /\ new[k].email = old[k].email
                    /\ new[k].discoveryPath = old[k].discoveryPath
               ELSE /\ << new[k].discoveryPath >> =
                         firstSurfaced(task'[p].call.found, new[k].email, 1)
                    /\ new[k].discoveryPath \in branches

\* C34, as stated: the discoveryPath of every emitted record is the
\* extractor branch that first surfaced the email on the first page where
\* it was found, one of json-ld, mailto, footer, inline.
C34_DiscoveryPathOfFour ==
  [][pathIsFirstBranch({"json-ld", "mailto", "footer", "inline"})]_vars

\* C34, amended: the discoveryPath of every emitted record is the extractor
\* branch that first surfaced the email on the first page where it was
\* found, one of json-ld, json-ld-contactpoint, mailto, inline, footer.
C34_DiscoveryPathIsFirstBranch ==
  [][pathIsFirstBranch({"json-ld", "json-ld-contactpoint", "mailto", "inline", "footer"})]_vars

\* a crawl has returned a record found first in a contactPoint and later
\* by another branch, and a record found first inline
C34_Witness ==
  \E p \in Tasks :
    LET records == toContactRecords(task[p].results) IN
    /\ task[p].pc = "done"
    /\ \E k \in 1..Len(records) :
         /\ records[k].discoveryPath = "json-ld-contactpoint"
         /\ \E i \in 1..Len(records[k].rawEvidence) :
              records[k].rawEvidence[i] \notin {"json-ld-contactpoint"}
    /\ \E k \in 1..Len(records) : records[k].discoveryPath = "inline"

(***************************************************************************)
(* The Safe-URL gate and the response cache                                *)
(***************************************************************************)
\* C35: for each candidate URL the Safe-URL gate is evaluated before the
\* response cache is consulted, so that no cached result is returned for a
\* URL the gate has not passed in this call.
C35_GateBeforeCache ==
  \A p \in Tasks :
    LET call == task[p].call IN
    /\ call.lookup => call.safe # "unknown"
    /\ call.hit => call.safe = "safe"

(***************************************************************************)
(* crawl_requests_total of a failed fetch                                  *)
(***************************************************************************)
\* the status label the failure of a fetchHtml call is to be counted under
failureLabel(f) ==
  IF f.kind = "AbortError" THEN "timeout"
  ELSE IF f.kind # "http" THEN "error"
  ELSE IF f.status = 403 \/ f.status = 429 THEN "blocked"
  ELSE IF f.status = 404 THEN "404"
  ELSE IF f.status >= 200 /\ f.status <= 299 /\ ~f.html THEN "non-html"
  ELSE "error"

\* the fetchHtml call that got f ended in failure
endedInFailure(f) ==
  /\ f.kind # "none"
  /\ ~(f.kind = "http" /\ f.status >= 200 /\ f.status <= 299 /\ f.html)

\* C36: each fetchHtml call that ends in failure increments
\* crawl_requests_total exactly once, with the one matching status label
\* (blocked for 403 / 429, 404, non-html, timeout, error otherwise).
C36_FailureCountedOnce ==
  \A p \in Tasks :
    LET f == task[p].call.fetchHtml IN
    endedInFailure(f) => f.counted = << failureLabel(f) >>

(***************************************************************************)
(* The addresses the requests go to                                        *)
(***************************************************************************)
\* C37: every HTTP request the fetcher sends goes to an address that is
\* not on the blocklist: neither a change of the DNS between the check of
\* isSafeUrl and the fetch nor a redirect leads to a loopback, private or
\* link-local address.
C37_RequestsGoToAllowedAddresses ==
  \A p \in Tasks :
    \A address \in task[p].call.connected :
      ~BLOCKED_IP_PATTERNS(address)

(***************************************************************************)
(* The sites of a job are crawled one after the other                      *)
(***************************************************************************)
\* op of site i + 1 is in the history before position k
stepBefore(steps, op, i, k) ==
  \E m \in 1..(k - 1) : steps[m].op = op /\ steps[m].i = i

inWithRateLimit(p) ==
  task[p].pc \in {"wait_global", "wait_host", "fetching", "backoff", "limiter_retry"}

written(u) ==
  /\ u \in DOMAIN redisStore'
  /\ u \notin DOMAIN redisStore \/ redisStore'[u] # redisStore[u]

\* C40: every entry of the response cache for a URL u was written by a
\* crawlUrl(u) call in which u passed the Safe-URL gate and the robots
\* check, the fetch succeeded and the challenge detector did not skip the
\* page; a crawlUrl call that returns null never writes the cache.
C40_CacheWrittenBySuccessfulCall ==
  [][/\ \A u \in DOMAIN redisStore' :
          written(u) =>
            \E p \in Tasks :
              LET call == task'[p].call IN
              /\ task[p].pc = "cache_set"
              /\ url(task[p]) = u
              /\ call.idx = task[p].idx
              /\ call.safe = "safe"
              /\ call.allowed = "yes"
              /\ call.fetched /\ ~call.caught /\ ~call.hit
              /\ \A k \in 1..Len(call.counted) : call.counted[k] # "captcha"
              /\ call.ret.kind = "result"
              /\ redisStore'[u] = JSONstringify(call.ret)
     /\ \A p \in Tasks :
          task'[p].call.ret.kind = "null" =>
            /\ ~task'[p].call.stored
            /\ task[p].call.ret.kind = "pending" => redisStore' = redisStore]_vars

\* a call for a URL that has an entry (the lookup failed) fetched a
\* challenge and returned null; the entry was written by an earlier call
C40_Witness ==
  \E p \in Tasks :
    LET call == task[p].call IN
    /\ call.ret.kind = "null"
    /\ \E k \in 1..Len(call.counted) : call.counted[k] = "captcha"
    /\ Url(task[p].site, call.idx) \in DOMAIN redisStore
    /\ decodable(redisStore[Url(task[p].site, call.idx)])

=============================================================================
